---- MODULE Spec2Model ----
(***************************************************************************)
(* State-machine model of the SGR research agent                           *)
(* (sgr_deep_research/core/agents/base_agent.py, sgr_agent.py), of its     *)
(* tools (core/tools/base.py, research.py) and of the Mistral structured   *)
(* output fallback compiler (core/llm/mistral_client.py).                  *)
(*                                                                         *)
(* One agent instance is modelled.  The agent coroutine is split at its    *)
(* program positions (pc); the external provide_clarification call can     *)
(* interleave only where the coroutine is suspended on an await (a backend *)
(* call, the clarification wait) or after it has returned.                 *)
(***************************************************************************)
EXTENDS Integers, Sequences, FiniteSets, TLC

VARIABLES
    \* agent configuration (constructor arguments, MistralConfig.so_mode)
    max_iterations, max_clarifications, max_searches, so_mode, toolkit,
    \* ResearchContext
    iteration, searches_used, clarifications_used, state,
    clarification_received, current_state_reasoning,
    \* agent fields
    conversation, log, stream,
    \* position of the execute coroutine and its locals
    pc, tools, error,
    \* locals of MistralLLMClient._complete_structured
    stage_idx, compiled, calls, response, result,
    \* ResearchContext.sources and ResearchContext.searches
    sources, searches,
    \* the agent registry of the API and the status of its last response
    agents_storage, http_status,
    \* argument and outcome of a library function called on its own
    argument, returned,
    \* a MistralStructuredStream and what its consumer has collected from it
    structured_stream, collected

vars == << max_iterations, max_clarifications, max_searches, so_mode, toolkit,
           iteration, searches_used, clarifications_used, state,
           clarification_received, current_state_reasoning,
           conversation, log, stream, pc, tools, error,
           stage_idx, compiled, calls, response, result,
           sources, searches, agents_storage, http_status, argument, returned,
           structured_stream, collected >>

config_vars == << max_iterations, max_clarifications, max_searches, so_mode, toolkit >>
client_vars == << stage_idx, compiled, calls, response, result >>
session_vars == << sources, searches >>
api_vars == << agents_storage, http_status >>
call_vars == << argument, returned >>
stream_vars == << structured_stream, collected >>
\* what one agent's run and its language-model client leave alone
component_vars == << session_vars, api_vars, call_vars, stream_vars >>

(***************************************************************************)
(* Bounds of the model                                                     *)
(***************************************************************************)
\* max_iterations is drawn from 1..MaxIterationsBound
MaxIterationsBound == 2
\* max_clarifications is drawn from 0..MaxClarificationsBound
MaxClarificationsBound == 1
\* max_searches is drawn from 0..MaxSearchesBound
MaxSearchesBound == 1
\* the language model is assumed to select the completion tool at iteration
\* IterCap at the latest (keeps the iteration counter finite)
IterCap == 3
\* at most ClarCap external provide_clarification calls are made
ClarCap == 1
\* counters of the permitted-tool-set computation range over 0..ToolInputBound
ToolInputBound == 3

(***************************************************************************)
(* Tool types                                                              *)
(***************************************************************************)
ClarificationTool == "ClarificationTool"
GeneratePlanTool == "GeneratePlanTool"
AdaptPlanTool == "AdaptPlanTool"
AgentCompletionTool == "AgentCompletionTool"
ReasoningTool == "ReasoningTool"
WebSearchTool == "WebSearchTool"
CreateReportTool == "CreateReportTool"
\* a user supplied tool type with a Dict field (constructor argument toolkit)
CustomMapTool == "CustomMapTool"

system_agent_tools ==
    {ClarificationTool, GeneratePlanTool, AdaptPlanTool, AgentCompletionTool, ReasoningTool}

research_agent_tools == {WebSearchTool, CreateReportTool}

\* SGRResearchAgent.__init__: the toolkit of an agent built with extra tools
AgentToolkit(extra) ==
    (system_agent_tools \cup research_agent_tools \cup extra) \ {ReasoningTool}

(***************************************************************************)
(* Lifecycle states                                                        *)
(***************************************************************************)
INITED == "INITED"
RESEARCHING == "RESEARCHING"
WAITING_FOR_CLARIFICATION == "WAITING_FOR_CLARIFICATION"
COMPLETED == "COMPLETED"
FAILED == "FAILED"

FINISH_STATES == {COMPLETED, FAILED}

None == "None"

(***************************************************************************)
(* SGRResearchAgent._prepare_tools: the permitted tool set                 *)
(***************************************************************************)
\* the iteration limit leaving the report tool alone
ToolsAfterIterationLimit_ReportOnly(it, maxIt, kit) ==
    IF it >= maxIt THEN {CreateReportTool} ELSE kit

ToolsAfterIterationLimit(it, maxIt, kit) ==
    IF it >= maxIt THEN {CreateReportTool, AgentCompletionTool} ELSE kit

\* the clarification budget compared with > instead of >=
ToolsAfterClarificationLimit_Strict(ts, used, maxClar) ==
    IF used > maxClar THEN ts \ {ClarificationTool} ELSE ts

ToolsAfterClarificationLimit(ts, used, maxClar) ==
    IF used >= maxClar THEN ts \ {ClarificationTool} ELSE ts

\* the search budget compared with > instead of >=
ToolsAfterSearchLimit_Strict(ts, used, maxS) ==
    IF used > maxS THEN ts \ {WebSearchTool} ELSE ts

ToolsAfterSearchLimit(ts, used, maxS) ==
    IF used >= maxS THEN ts \ {WebSearchTool} ELSE ts

PrepareTools ==
    ToolsAfterSearchLimit(
        ToolsAfterClarificationLimit(
            ToolsAfterIterationLimit(iteration, max_iterations, toolkit),
            clarifications_used, max_clarifications),
        searches_used, max_searches)

(***************************************************************************)
(* Reasoning decisions (NextStepTools instances)                           *)
(***************************************************************************)
\* the status field exists on AgentCompletionTool only
StatusesOf(t) == IF t = AgentCompletionTool THEN {COMPLETED, FAILED} ELSE {None}

\* the decisions that validate against NextStepTools built over ts; the
\* language model is assumed to complete at iteration IterCap at the latest
Decisions(ts) ==
    { d \in [tool : ts, status : {COMPLETED, FAILED, None}, task_completed : BOOLEAN] :
        /\ d.status \in StatusesOf(d.tool)
        /\ iteration >= IterCap => d.tool = AgentCompletionTool }

NoDecision == [tool |-> None, status |-> None, task_completed |-> FALSE]

(***************************************************************************)
(* Conversation turns, log entries, streaming channel events               *)
(***************************************************************************)
UserRequestTurn == [role |-> "user", kind |-> "request", id |-> 0]
ClarificationTurn == [role |-> "user", kind |-> "clarification", id |-> 0]
ToolCallTurn(i) == [role |-> "assistant", kind |-> "tool_call", id |-> i]
ToolResultTurn(i) == [role |-> "tool", kind |-> "tool_result", id |-> i]

\* the log entries: their step type and step number (the dumped decision and
\* tool of an entry are those of the context's current reasoning at that step)
ReasoningLogEntry == [step_type |-> "reasoning", step_number |-> iteration]
ToolLogEntry == [step_type |-> "tool_execution", step_number |-> iteration]

(***************************************************************************)
(* Initial state: a constructed agent whose execute task has been created  *)
(***************************************************************************)
StageNames == {"native", "json_schema", "json_mode"}

\* ResearchContext() as constructed by BaseAgent.__init__
ResearchContextInit ==
    /\ iteration = 0
    /\ searches_used = 0
    /\ clarifications_used = 0
    /\ state = INITED
    /\ clarification_received = FALSE
    /\ current_state_reasoning = NoDecision

AgentInit ==
    /\ conversation = << >>
    /\ log = << >>
    /\ stream = << >>
    /\ tools = {}
    /\ error = None
    /\ stage_idx = 1
    /\ compiled = FALSE
    /\ calls = << >>
    /\ response = None
    /\ result = NoDecision

\* ResearchContext(): no sources and no searches yet
SessionInit ==
    /\ sources = << >>
    /\ searches = << >>

\* endpoints.py line 24: the registry of a started API process
RegistryInit ==
    /\ agents_storage = << >>
    /\ http_status = None

\* no structured stream has been made
NoStructuredStream ==
    /\ structured_stream = None
    /\ collected = << >>

\* no library function is being called on its own
NoCall ==
    /\ argument = None
    /\ returned = None

Init ==
    /\ SessionInit
    /\ RegistryInit
    /\ NoStructuredStream
    /\ NoCall
    /\ max_iterations \in 1..MaxIterationsBound
    /\ max_clarifications \in 0..MaxClarificationsBound
    /\ max_searches \in 0..MaxSearchesBound
    /\ so_mode \in StageNames
    /\ toolkit \in {AgentToolkit({}), AgentToolkit({CustomMapTool})}
    /\ ResearchContextInit
    /\ AgentInit
    /\ pc = "start"

(***************************************************************************)
(* BaseAgent.provide_clarification (external call)                         *)
(***************************************************************************)
\* the positions at which the execute coroutine is suspended or has returned
SuspendedAt == {"stage", "wait", "done"}

\* the call made without setting the clarification event
ProvideClarification_NoSignal ==
    /\ pc \in SuspendedAt
    /\ clarifications_used < ClarCap
    /\ conversation' = Append(conversation, ClarificationTurn)
    /\ clarifications_used' = clarifications_used + 1
    /\ state' = RESEARCHING
    /\ UNCHANGED << config_vars, component_vars, client_vars, iteration, searches_used,
                    clarification_received,
                    current_state_reasoning, log, stream, pc, tools, error >>

ProvideClarification ==
    /\ pc \in SuspendedAt
    /\ clarifications_used < ClarCap
    /\ conversation' = Append(conversation, ClarificationTurn)
    /\ clarifications_used' = clarifications_used + 1
    /\ clarification_received' = TRUE
    /\ state' = RESEARCHING
    /\ UNCHANGED << config_vars, component_vars, client_vars, iteration, searches_used,
                    current_state_reasoning, log, stream, pc, tools, error >>

(***************************************************************************)
(* BaseAgent.execute                                                       *)
(***************************************************************************)
\* lines 201-209: the task is appended to the conversation
ExecuteStart ==
    /\ pc = "start"
    /\ conversation' = Append(conversation, UserRequestTurn)
    /\ pc' = "loop"
    /\ UNCHANGED << config_vars, component_vars, client_vars, iteration, searches_used,
                    clarifications_used, state, clarification_received,
                    current_state_reasoning, log, stream, tools, error >>

\* the default order with the last two stages swapped
ResolveStageOrder_Swapped(mode) ==
    IF mode = "json_schema" THEN << "json_schema", "json_mode" >>
    ELSE IF mode = "json_mode" THEN << "json_mode" >>
    ELSE << "native", "json_mode", "json_schema" >>

\* MistralLLMClient._resolve_stage_order
ResolveStageOrder(mode) ==
    IF mode = "json_schema" THEN << "json_schema", "json_mode" >>
    ELSE IF mode = "json_mode" THEN << "json_mode" >>
    ELSE << "native", "json_schema", "json_mode" >>

stages == ResolveStageOrder(so_mode)

\* line 211-215 and SGRResearchAgent._reasoning_phase up to the first await:
\* the while test, the iteration increment, the permitted tool set and the
\* start of the structured completion
LoopIteration ==
    /\ pc = "loop"
    /\ state \notin FINISH_STATES
    /\ UNCHANGED << config_vars, component_vars, searches_used, clarifications_used, state,
                    clarification_received, current_state_reasoning,
                    conversation, log, stream, error >>
    /\ iteration' = iteration + 1
    /\ tools' = PrepareTools'
    /\ stage_idx' = 1
    /\ compiled' = FALSE
    /\ calls' = << >>
    /\ response' = None
    /\ result' = NoDecision
    /\ pc' = "stage"

\* line 211: the while test fails, the loop is left
LoopExit ==
    /\ pc = "loop"
    /\ state \in FINISH_STATES
    /\ pc' = "finally"
    /\ UNCHANGED << config_vars, component_vars, client_vars, iteration, searches_used,
                    clarifications_used, state, clarification_received,
                    current_state_reasoning, conversation, log, stream, tools, error >>

\* the except clause without the transition to FAILED
ExceptHandler_NoFail(e) ==
    /\ error' = e
    /\ state' = state
    /\ pc' = "finally"

\* lines 228-231: an exception of type e reaches the except clause
ExceptHandler(e) ==
    /\ error' = e
    /\ state' = FAILED
    /\ pc' = "finally"

\* the finally clause without the finish signal
Finally_NoSignal ==
    /\ pc = "finally"
    /\ pc' = "done"
    /\ UNCHANGED << config_vars, component_vars, client_vars, iteration, searches_used,
                    clarifications_used, state, clarification_received,
                    current_state_reasoning, conversation, log, stream, tools, error >>

\* lines 232-235: the finally clause
Finally ==
    /\ pc = "finally"
    /\ stream' = Append(stream, "finish")
    /\ pc' = "done"
    /\ UNCHANGED << config_vars, component_vars, client_vars, iteration, searches_used,
                    clarifications_used, state, clarification_received,
                    current_state_reasoning, conversation, log, tools, error >>

(***************************************************************************)
(* MistralLLMClient._complete_structured: the fallback stages              *)
(***************************************************************************)
\* what the backend can answer to parse_async
ParseResponses == {"valid", "no_choices", "no_parsed", "raise_soe", "raise_other"}

\* what the backend can answer to complete_async: it raises, or returns no
\* text, or text that is not JSON, or one JSON object followed by prose, or
\* a JSON value that is not an object, or an object whose function lacks the
\* kind tag or carries an unknown one, or an object with a string where a
\* list is expected, or an object the response model rejects, or a valid one
CompleteResponses ==
    {"valid", "empty", "not_json", "json_trailing", "non_object", "missing_kind",
     "unknown_kind", "bad_list", "invalid", "raise_soe", "raise_other"}

Ok == "ok"
StructuredOutputError == "StructuredOutputError"
SchemaTooComplexError == "SchemaTooComplexError"
TransportError == "TransportError"
TypeError == "TypeError"
ValueError == "ValueError"
ToolExecutionError == "ToolExecutionError"

\* SchemaCompiler.compile on NextStepTools over ts: a Dict field is rejected
CompileOutcome(ts) == IF CustomMapTool \in ts THEN SchemaTooComplexError ELSE Ok

\* _call_parse: Ok or the exception it raises
CallParseOutcome(r) ==
    CASE r = "valid" -> Ok
      [] r \in {"no_choices", "no_parsed", "raise_soe"} -> StructuredOutputError
      [] OTHER -> TransportError

\* _call_json_schema: Ok or the exception it raises
CallJsonSchemaOutcome(r) ==
    CASE r = "valid" -> Ok
      [] r \in {"empty", "raise_soe", "not_json", "json_trailing", "invalid"} -> StructuredOutputError
      [] r \in {"non_object", "bad_list"} -> TypeError
      [] r \in {"missing_kind", "unknown_kind"} -> ValueError
      [] OTHER -> TransportError

\* _call_json_mode with compiled schema (c = TRUE) or without: Ok or the
\* exception it raises
CallJsonModeOutcome(r, c) ==
    CASE r \in {"valid", "json_trailing"} -> Ok
      [] r \in {"empty", "raise_soe", "not_json", "non_object", "invalid"} -> StructuredOutputError
      [] r = "bad_list" -> IF c THEN TypeError ELSE StructuredOutputError
      [] r \in {"missing_kind", "unknown_kind"} -> IF c THEN ValueError ELSE Ok
      [] OTHER -> TransportError

\* the locals of _complete_structured once it has returned or raised
LocalsGone ==
    /\ stage_idx' = 1
    /\ compiled' = FALSE
    /\ calls' = << >>
    /\ response' = None

\* lines 178-179, 184-185, 201-202: the stage succeeded, the result is returned
StageReturn(d) ==
    /\ result' = d
    /\ LocalsGone
    /\ pc' = "reasoning_return"
    /\ UNCHANGED << state, error >>

\* lines 203-228: the stage raised a structured-output or schema error, the
\* loop continues with the next stage (keeping the compiled schema if c) or,
\* after the last one, raises StructuredOutputError
StageContinue(c) ==
    /\ result' = result
    /\ IF stage_idx < Len(stages)
       THEN /\ stage_idx' = stage_idx + 1
            /\ compiled' = c
            /\ response' = None
            /\ pc' = "stage"
            /\ UNCHANGED << calls, state, error >>
       ELSE /\ LocalsGone
            /\ ExceptHandler(StructuredOutputError)

\* any other exception leaves _complete_structured and reaches execute
StagePropagate(e) ==
    /\ result' = result
    /\ LocalsGone
    /\ ExceptHandler(e)

\* the loop of _complete_structured without the except clause for
\* SchemaTooComplexError
StageOutcome_Propagating(o) ==
    CASE o = Ok -> \E d \in Decisions(tools) : StageReturn(d)
      [] o = StructuredOutputError -> StageContinue(compiled)
      [] OTHER -> StagePropagate(o)

\* the handling of a stage's outcome o in the loop of _complete_structured
StageOutcome(o) ==
    CASE o = Ok -> \E d \in Decisions(tools) : StageReturn(d)
      [] o = StructuredOutputError -> StageContinue(compiled)
      [] o = SchemaTooComplexError -> StageContinue(FALSE)
      [] OTHER -> StagePropagate(o)

agent_frame == << config_vars, component_vars, iteration, searches_used, clarifications_used,
                  clarification_received, current_state_reasoning,
                  conversation, log, stream, tools >>

\* the request of stage s is sent and the backend answers r
BackendAnswers(s, r) ==
    /\ calls' = Append(calls, s)
    /\ response' = r
    /\ pc' = "response"
    /\ UNCHANGED << stage_idx, result, state, error >>

\* lines 176-177 and _call_parse line 245: the request of the native stage
StageNative ==
    /\ pc = "stage"
    /\ stages[stage_idx] = "native"
    /\ compiled' = compiled
    /\ \E r \in ParseResponses : BackendAnswers("native", r)
    /\ UNCHANGED agent_frame

\* lines 180-182: the schema does not compile, no request is sent
StageJsonSchemaCompileFails ==
    /\ pc = "stage"
    /\ stages[stage_idx] = "json_schema"
    /\ ~compiled
    /\ CompileOutcome(tools) # Ok
    /\ StageOutcome(CompileOutcome(tools))
    /\ UNCHANGED agent_frame

\* lines 180-183 and _call_json_schema line 271: the schema is compiled and
\* the request of the JSON-Schema stage is sent
StageJsonSchema ==
    /\ pc = "stage"
    /\ stages[stage_idx] = "json_schema"
    /\ compiled \/ CompileOutcome(tools) = Ok
    /\ compiled' = TRUE
    /\ \E r \in CompleteResponses : BackendAnswers("json_schema", r)
    /\ UNCHANGED agent_frame

\* lines 186-199: the schema is compiled when it was not and can be
CompiledForJsonMode == compiled \/ CompileOutcome(tools) = Ok

\* lines 186-200 and _call_json_mode line 308: the request of the JSON-mode
\* stage
StageJsonMode ==
    /\ pc = "stage"
    /\ stages[stage_idx] = "json_mode"
    /\ compiled' = CompiledForJsonMode
    /\ \E r \in CompleteResponses : BackendAnswers("json_mode", r)
    /\ UNCHANGED agent_frame

\* the rest of _call_parse, _call_json_schema or _call_json_mode on the
\* backend's answer
CallOutcome(s, r, c) ==
    CASE s = "native" -> CallParseOutcome(r)
      [] s = "json_schema" -> CallJsonSchemaOutcome(r)
      [] OTHER -> CallJsonModeOutcome(r, c)

\* the answer is decoded and the stage returns, falls through or raises
StageResponse ==
    /\ pc = "response"
    /\ StageOutcome(CallOutcome(stages[stage_idx], response, compiled))
    /\ UNCHANGED agent_frame

(***************************************************************************)
(* SGRResearchAgent phases                                                 *)
(***************************************************************************)
\* _reasoning_phase after the completion: the chunks are forwarded (one
\* channel event stands for the chunks of one payload), the decision is
\* logged; execute line 216 records it in the context
ReasoningReturn ==
    /\ pc = "reasoning_return"
    /\ stream' = Append(stream, "text_chunk")
    /\ result' = NoDecision
    /\ IF result = NoDecision
       THEN /\ ExceptHandler(ValueError)
            /\ UNCHANGED << log, current_state_reasoning >>
       ELSE /\ log' = Append(log, ReasoningLogEntry)
            /\ current_state_reasoning' = result
            /\ pc' = "select"
            /\ UNCHANGED << state, error >>
    /\ UNCHANGED << config_vars, component_vars, stage_idx, compiled, calls, response,
                    iteration, searches_used,
                    clarifications_used, clarification_received,
                    conversation, tools >>

BaseTools == AgentToolkit({CustomMapTool})

\* _select_action_phase
SelectActionPhase ==
    /\ pc = "select"
    /\ IF current_state_reasoning.tool \notin BaseTools
       THEN /\ ExceptHandler(ValueError)
            /\ UNCHANGED << conversation, stream >>
       ELSE /\ conversation' = Append(conversation, ToolCallTurn(iteration))
            /\ stream' = Append(stream, "tool_call")
            /\ pc' = "action"
            /\ UNCHANGED << state, error >>
    /\ UNCHANGED << config_vars, component_vars, client_vars, iteration, searches_used,
                    clarifications_used, clarification_received,
                    current_state_reasoning, log, tools >>

\* the tools whose execution performs I/O and can raise
RaisingTools == {WebSearchTool, CreateReportTool, CustomMapTool}

\* the completion tool leaving the lifecycle state alone
CompletionToolState_Ignored(d) == state

\* AgentCompletionTool.__call__
CompletionToolState(d) == d.status

\* the lifecycle state after tool d.tool ran
ToolState(d) == IF d.tool = AgentCompletionTool THEN CompletionToolState(d) ELSE state

\* WebSearchTool.__call__ line 140
ToolSearchesUsed(d) == IF d.tool = WebSearchTool THEN searches_used + 1 ELSE searches_used

\* _action_phase raises: the tool's I/O failed
ActionPhaseRaises ==
    /\ pc = "action"
    /\ current_state_reasoning.tool \in RaisingTools
    /\ ExceptHandler(ToolExecutionError)
    /\ UNCHANGED << config_vars, component_vars, client_vars, iteration, searches_used,
                    clarifications_used, clarification_received,
                    current_state_reasoning, conversation, log, stream, tools >>

\* the wait entered without clearing the event first
ActionPhase_NotRearmed ==
    /\ pc = "action"
    /\ LET d == current_state_reasoning IN
        /\ searches_used' = ToolSearchesUsed(d)
        /\ conversation' = Append(conversation, ToolResultTurn(iteration))
        /\ stream' = Append(stream, "tool_result")
        /\ log' = Append(log, ToolLogEntry)
        /\ clarification_received' = clarification_received
        /\ IF d.tool = ClarificationTool
           THEN /\ state' = WAITING_FOR_CLARIFICATION
                /\ pc' = "wait"
           ELSE /\ state' = ToolState(d)
                /\ pc' = "loop"
    /\ UNCHANGED << config_vars, component_vars, client_vars, iteration, clarifications_used,
                    current_state_reasoning, tools, error >>

\* _action_phase, then execute lines 220-226
ActionPhase ==
    /\ pc = "action"
    /\ LET d == current_state_reasoning IN
        /\ searches_used' = ToolSearchesUsed(d)
        /\ conversation' = Append(conversation, ToolResultTurn(iteration))
        /\ stream' = Append(stream, "tool_result")
        /\ log' = Append(log, ToolLogEntry)
        /\ IF d.tool = ClarificationTool
           THEN /\ state' = WAITING_FOR_CLARIFICATION
                /\ clarification_received' = FALSE
                /\ pc' = "wait"
           ELSE /\ state' = ToolState(d)
                /\ clarification_received' = clarification_received
                /\ pc' = "loop"
    /\ UNCHANGED << config_vars, component_vars, client_vars, iteration, clarifications_used,
                    current_state_reasoning, tools, error >>

\* the loop going on without waiting for the event
ClarificationWaitReturns_NoWait ==
    /\ pc = "wait"
    /\ pc' = "loop"
    /\ UNCHANGED << config_vars, component_vars, client_vars, iteration, searches_used,
                    clarifications_used, state, clarification_received,
                    current_state_reasoning, conversation, log, stream, tools, error >>

\* line 225-226: the wait returns once the event is set
ClarificationWaitReturns ==
    /\ pc = "wait"
    /\ clarification_received
    /\ pc' = "loop"
    /\ UNCHANGED << config_vars, component_vars, client_vars, iteration, searches_used,
                    clarifications_used, state, clarification_received,
                    current_state_reasoning, conversation, log, stream, tools, error >>

AgentStep ==
    \/ ExecuteStart
    \/ LoopIteration
    \/ LoopExit
    \/ StageNative
    \/ StageJsonSchemaCompileFails
    \/ StageJsonSchema
    \/ StageJsonMode
    \/ StageResponse
    \/ ReasoningReturn
    \/ SelectActionPhase
    \/ ActionPhaseRaises
    \/ ActionPhase
    \/ ClarificationWaitReturns
    \/ Finally

Next == AgentStep \/ ProvideClarification

Spec == Init /\ [][Next]_vars

(***************************************************************************)
(* The permitted-tool-set computation on an arbitrary Research Context     *)
(***************************************************************************)
LifecycleStates == {INITED, RESEARCHING, WAITING_FOR_CLARIFICATION, COMPLETED, FAILED}

InitTools ==
    /\ SessionInit
    /\ RegistryInit
    /\ NoStructuredStream
    /\ NoCall
    /\ max_iterations \in 0..MaxIterationsBound
    /\ max_clarifications \in 0..MaxClarificationsBound
    /\ max_searches \in 0..MaxSearchesBound
    /\ so_mode = "native"
    /\ toolkit \in {AgentToolkit({}), AgentToolkit({CustomMapTool})}
    /\ iteration \in 0..ToolInputBound
    /\ searches_used \in 0..ToolInputBound
    /\ clarifications_used \in 0..ToolInputBound
    /\ state \in LifecycleStates
    /\ clarification_received = FALSE
    /\ current_state_reasoning = NoDecision
    /\ AgentInit
    /\ pc = "prepare_tools"

\* line 62 narrows the set it has copied from the toolkit in place
ToolkitAfterPrepareTools_Aliased ==
    IF iteration >= max_iterations THEN toolkit ELSE PrepareTools

\* line 62: tools = set(self.toolkit) is a copy, the toolkit is left as it is
ToolkitAfterPrepareTools == toolkit

\* one call of SGRResearchAgent._prepare_tools
ComputePermittedTools ==
    /\ pc = "prepare_tools"
    /\ tools' = PrepareTools
    /\ toolkit' = ToolkitAfterPrepareTools
    /\ pc' = "tools_ready"
    /\ UNCHANGED << max_iterations, max_clarifications, max_searches, so_mode,
                    component_vars, client_vars, iteration, searches_used,
                    clarifications_used, state, clarification_received,
                    current_state_reasoning, conversation, log, stream, error >>

SpecTools == InitTools /\ [][ComputePermittedTools]_vars

\* a second call of _prepare_tools right after the first
RecomputePermittedTools ==
    /\ pc = "tools_ready"
    /\ returned' = PrepareTools
    /\ toolkit' = ToolkitAfterPrepareTools
    /\ pc' = "tools_ready_again"
    /\ UNCHANGED << max_iterations, max_clarifications, max_searches, so_mode,
                    session_vars, api_vars, stream_vars, argument, client_vars, iteration,
                    searches_used, clarifications_used, state,
                    clarification_received, current_state_reasoning,
                    conversation, log, stream, tools, error >>

SpecToolsTwice ==
    InitTools /\ [][ComputePermittedTools \/ RecomputePermittedTools]_vars

\* the event loop runs a ready coroutine: the wait returns once the event is
\* set and the loop goes on to its next iteration
FairSpec == Spec /\ WF_vars(ClarificationWaitReturns) /\ WF_vars(LoopIteration)


(***************************************************************************)
(* Properties                                                              *)
(***************************************************************************)
Last(seq) == seq[Len(seq)]

\* the last thing the agent logged is the execution of tool t
LastToolExecution(t) ==
    /\ log # << >>
    /\ Last(log).step_type = "tool_execution"
    /\ current_state_reasoning.tool = t

\* C1: for every Research Context and every budget setting the permitted
\* tool set lacks the clarification tool whenever clarifications_used >=
\* max_clarifications, lacks the web-search tool whenever searches_used >=
\* max_searches, and is exactly {create-report, complete} whenever
\* iteration >= max_iterations
C1_PermittedToolSet ==
    pc = "tools_ready" =>
        /\ clarifications_used >= max_clarifications => ClarificationTool \notin tools
        /\ searches_used >= max_searches => WebSearchTool \notin tools
        /\ iteration >= max_iterations => tools = {CreateReportTool, AgentCompletionTool}

C1_Witness ==
    /\ pc = "tools_ready"
    /\ iteration < max_iterations
    /\ clarifications_used = max_clarifications
    /\ searches_used < max_searches
    /\ ClarificationTool \notin tools
    /\ WebSearchTool \in tools

\* C2: with max_iterations = N the run is in a terminal state no later than
\* iteration N+1, so the iteration counter never exceeds N+1
C2_TerminalByIterationNPlus1 == iteration <= max_iterations + 1

\* C3: once the completion tool has been executed with status s the
\* lifecycle state is s, and execute only leaves the loop and finishes: no
\* reasoning call and no tool execution follows, and no error is raised
C3_CompletionEndsRun ==
    LastToolExecution(AgentCompletionTool) =>
        /\ pc \in {"loop", "finally", "done"}
        /\ pc \in {"loop", "finally"} => state = current_state_reasoning.status
        /\ error = None

C3_Witness ==
    /\ LastToolExecution(AgentCompletionTool)
    /\ current_state_reasoning.status = COMPLETED
    /\ state = COMPLETED
    /\ pc = "done"

\* C4: after an iteration whose decision has task_completed set, the loop
\* test finds the context in a terminal state, whichever tool was selected
C4_TaskCompletedEndsRun ==
    ( /\ pc = "loop"
      /\ log # << >>
      /\ Last(log).step_type = "tool_execution"
      /\ current_state_reasoning.task_completed )
        => state \in FINISH_STATES

ClarificationTurns(conv) ==
    Cardinality({ i \in DOMAIN conv : conv[i].kind = "clarification" })

\* C5: executing the clarification tool puts the context in
\* WAITING_FOR_CLARIFICATION and suspends the agent: until
\* provide_clarification is called there is no reasoning call and no tool
\* execution; each provide_clarification call appends one user turn, adds
\* exactly 1 to clarifications_used and sets the state to RESEARCHING
C5_Step ==
    /\ (pc = "action" /\ current_state_reasoning.tool = ClarificationTool)
          => (pc' = "wait" /\ state' = WAITING_FOR_CLARIFICATION)
    /\ (pc' = "wait" /\ ~clarification_received')
          => state' = WAITING_FOR_CLARIFICATION
    /\ (pc = "wait" /\ ~clarification_received)
          => \/ /\ pc' = "wait"
                /\ clarification_received'
                /\ clarifications_used' = clarifications_used + 1
             \/ UNCHANGED vars
    /\ (pc = "wait" /\ pc' = "wait")
          => UNCHANGED << iteration, searches_used, log, stream, calls, tools >>
    /\ clarifications_used' # clarifications_used
          => /\ clarifications_used' = clarifications_used + 1
             /\ conversation' = Append(conversation, ClarificationTurn)
             /\ state' = RESEARCHING
    /\ clarifications_used' = ClarificationTurns(conversation')

C5_ClarificationRound == [][C5_Step]_vars

C5_Witness ==
    /\ pc = "loop"
    /\ iteration = 1
    /\ LastToolExecution(ClarificationTool)
    /\ Last(conversation) = ClarificationTurn
    /\ clarifications_used = 1
    /\ ClarificationTurns(conversation) = 1
    /\ state = RESEARCHING

\* C6: a provide_clarification call made while the agent is suspended on
\* the clarification wait is never lost: the agent eventually starts the
\* iteration that follows the clarification one (the counter is one more
\* than the step that executed the clarification tool) and begins its
\* reasoning call
C6_WakeUpNotLost ==
    (pc = "wait" /\ state = RESEARCHING)
        ~> ( /\ pc = "stage"
             /\ calls = << >>
             /\ current_state_reasoning.tool = ClarificationTool
             /\ iteration = Last(log).step_number + 1 )

C6_Witness ==
    /\ pc = "stage"
    /\ calls = << >>
    /\ iteration = 2
    /\ LastToolExecution(ClarificationTool)
    /\ Last(log).step_number = 1
    /\ Last(conversation) = ClarificationTurn
    /\ state = RESEARCHING

\* C7: once a phase has raised, the context is FAILED and execute only runs
\* its finally clause (no reasoning call, no tool execution, no retry),
\* after which the last thing on the streaming channel is the finish signal
C7_ErrorFailsRun ==
    error # None =>
        \/ (pc = "finally" /\ state = FAILED)
        \/ (pc = "done" /\ Last(stream) = "finish")

C7_Witness ==
    /\ error = ToolExecutionError
    /\ pc = "done"
    /\ state = FAILED
    /\ Last(stream) = "finish"

StagePosition(s) ==
    CASE s = "native" -> 1
      [] s = "json_schema" -> 2
      [] s = "json_mode" -> 3

\* the backend calls that precede the call of stage s in the default mode
\* when every earlier stage failed
CallsBefore(s) ==
    CASE s = "native" -> { << >> }
      [] s = "json_schema" -> { << "native" >> }
      [] s = "json_mode" ->
            IF CompileOutcome(tools) = Ok
            THEN { << "native", "json_schema" >> }
            ELSE { << "native" >> }

\* C8: in the default mode the stages are tried in the order native parse,
\* JSON-Schema, JSON mode: a stage is called only after every earlier stage
\* has failed and at most once; after the first stage that succeeds no
\* backend call is made and the completion returns that stage's result
C8_Step ==
    so_mode = "native" =>
        /\ calls' # calls =>
              \/ calls' = << >>
              \/ \E s \in StageNames :
                    /\ calls' = Append(calls, s)
                    /\ calls \in CallsBefore(s)
                    /\ stage_idx = StagePosition(s)
                    /\ pc = "stage"
                    /\ pc' = "response"
                    /\ result = NoDecision
        /\ (pc' = "stage" /\ pc # "stage") =>
              \/ (pc = "loop" /\ calls' = << >>)
              \/ /\ pc = "response"
                 /\ response # "valid"
                 /\ stage_idx' = stage_idx + 1
                 /\ calls' = calls
        /\ (pc = "response" /\ response = "valid") =>
              /\ pc' = "reasoning_return"
              /\ calls' = << >>
              /\ result' \in Decisions(tools)

C8_StageOrder == [][C8_Step]_vars

C8_Witness ==
    /\ so_mode = "native"
    /\ pc = "response"
    /\ calls = << "native", "json_schema", "json_mode" >>
    /\ response = "valid"

\* the decode and validation failures of a JSON-Schema stage response
DecodeFailures == {"not_json", "non_object", "missing_kind", "unknown_kind", "invalid"}

\* C9: whenever the response of the JSON-Schema stage fails to decode or to
\* validate, the completion goes on to the JSON-mode stage and the request
\* is not aborted
C9_Step ==
    (pc = "response" /\ Last(calls) = "json_schema" /\ response \in DecodeFailures)
        => (pc' = "stage" /\ stages[stage_idx'] = "json_mode" /\ error' = None)

C9_JsonSchemaFailureFallsThrough == [][C9_Step]_vars

\* the failures of a JSON-mode stage response
JsonModeFailures ==
    {"empty", "not_json", "non_object", "missing_kind", "unknown_kind",
     "bad_list", "invalid", "raise_soe"}

\* C10: when the last fallback stage fails too, the completion raises a
\* StructuredOutputError, and the agent ends the run in FAILED without
\* executing a tool in that iteration
C10_Step ==
    ( /\ pc = "response"
      /\ stage_idx = Len(stages)
      /\ response \in JsonModeFailures
      /\ pc' # "reasoning_return" )
        => /\ error' = StructuredOutputError
           /\ state' = FAILED
           /\ pc' = "finally"
           /\ log' = log

C10_AllStagesFail == [][C10_Step]_vars


(***************************************************************************)
(* Library functions called on their own: the rest of the model is idle    *)
(***************************************************************************)
\* an agent that has been constructed and is not run
IdleAgent ==
    /\ max_iterations = 1
    /\ max_clarifications = 0
    /\ max_searches = 0
    /\ so_mode = "native"
    /\ toolkit = AgentToolkit({})
    /\ ResearchContextInit
    /\ AgentInit

(***************************************************************************)
(* soft_json_parse and the decoding of a JSON-mode response                *)
(***************************************************************************)
\* the longest response text that is enumerated
MaxTextLen == 5

\* the characters of a response text: the two braces, white space, and "a"
\* for any other run of characters (a member inside an object, prose
\* outside of one)
Chars == {"{", "}", "a", " "}

Texts == UNION { [1..n -> Chars] : n \in 0..MaxTextLen }

JSONDecodeError == "JSONDecodeError"
ValidationError == "ValidationError"

\* str.strip
RECURSIVE Strip(_)
Strip(t) ==
    IF t = << >> THEN t
    ELSE IF Head(t) = " " THEN Strip(Tail(t))
    ELSE IF t[Len(t)] = " " THEN Strip(SubSeq(t, 1, Len(t) - 1))
    ELSE t

\* the number of objects open after the first i characters of t
RECURSIVE Depth(_, _)
Depth(t, i) ==
    IF i = 0 THEN 0
    ELSE Depth(t, i - 1) + (CASE t[i] = "{" -> 1 [] t[i] = "}" -> -1 [] OTHER -> 0)

\* t is one JSON object and nothing else
IsJsonObject(t) ==
    /\ t # << >>
    /\ t[1] = "{"
    /\ Depth(t, Len(t)) = 0
    /\ \A i \in 1..(Len(t) - 1) : Depth(t, i) > 0

\* the value json.loads returns for an object: its text without white space
Compact(t) == SelectSeq(t, LAMBDA c : c # " ")

Raised(e) == [error |-> e, value |-> << >>]
Returned(v) == [error |-> Ok, value |-> v]

\* json.loads: the decoded value, or JSONDecodeError
JsonLoads(t) ==
    IF IsJsonObject(Strip(t)) THEN Returned(Compact(t)) ELSE Raised(JSONDecodeError)

\* str.find and str.rfind, counting from 1 (0: not found)
Find(t, c) ==
    IF \E i \in 1..Len(t) : t[i] = c
    THEN CHOOSE i \in 1..Len(t) : t[i] = c /\ \A j \in 1..(i - 1) : t[j] # c
    ELSE 0

RFind(t, c) ==
    IF \E i \in 1..Len(t) : t[i] = c
    THEN CHOOSE i \in 1..Len(t) : t[i] = c /\ \A j \in (i + 1)..Len(t) : t[j] # c
    ELSE 0

\* soft_json_parse without the second attempt on the brace span
SoftJsonParse_NoSpan(raw) ==
    LET t == Strip(raw) IN
    IF t = << >> THEN Raised(ValueError) ELSE JsonLoads(t)

\* soft_json_parse: the decoded value or the exception raised
SoftJsonParse(raw) ==
    LET t == Strip(raw)
        start == Find(t, "{")
        end == RFind(t, "}")
    IN  IF t = << >> THEN Raised(ValueError)
        ELSE IF JsonLoads(t).error = Ok THEN JsonLoads(t)
        ELSE IF start # 0 /\ end # 0 /\ end > start
             THEN JsonLoads(SubSeq(t, start, end))
             ELSE Raised(JSONDecodeError)

\* response_model.model_validate on a decoded object: an object without a
\* member lacks the required fields
ModelValidate(v) == IF Len(v) > 2 THEN Ok ELSE ValidationError

\* _call_json_mode from the backend's answer on, without a compiled schema
CallJsonModeDecode(text) ==
    IF text = << >> THEN Raised(StructuredOutputError)
    ELSE LET parsed_json == IF JsonLoads(text).error = Ok
                            THEN JsonLoads(text)
                            ELSE SoftJsonParse(text)
         IN  IF parsed_json.error # Ok
             THEN Raised(StructuredOutputError)
             ELSE IF parsed_json.value[1] # "{"
             THEN Raised(StructuredOutputError)
             ELSE IF ModelValidate(parsed_json.value) # Ok
             THEN Raised(StructuredOutputError)
             ELSE parsed_json

InitJsonMode ==
    /\ IdleAgent
    /\ SessionInit
    /\ RegistryInit
    /\ NoStructuredStream
    /\ argument \in Texts
    /\ returned = None
    /\ pc = "json_mode_answered"

\* the JSON-mode stage decodes the backend's answer
JsonModeDecodes ==
    /\ pc = "json_mode_answered"
    /\ returned' = CallJsonModeDecode(argument)
    /\ pc' = "json_mode_decoded"
    /\ UNCHANGED << config_vars, client_vars, session_vars, api_vars, stream_vars, argument,
                    iteration, searches_used, clarifications_used, state,
                    clarification_received, current_state_reasoning,
                    conversation, log, stream, tools, error >>

SpecJsonMode == InitJsonMode /\ [][JsonModeDecodes]_vars

\* the length of the JSON object t starts with (0: t starts with none)
ObjectPrefixLen(t) ==
    IF t # << >> /\ t[1] = "{" /\ \E i \in 1..Len(t) : Depth(t, i) = 0
    THEN CHOOSE i \in 1..Len(t) : Depth(t, i) = 0 /\ \A j \in 1..(i - 1) : Depth(t, j) > 0
    ELSE 0

EmbeddedObject(t) == SubSeq(t, 1, ObjectPrefixLen(t))
TrailingText(t) == SubSeq(t, ObjectPrefixLen(t) + 1, Len(t))

\* t is one JSON object followed by text that is not JSON
ObjectThenText(t) ==
    /\ ObjectPrefixLen(t) > 0
    /\ Strip(TrailingText(t)) # << >>
    /\ ~IsJsonObject(Strip(TrailingText(t)))

\* what validating the object v alone gives
ValidatedAlone(v) ==
    IF ModelValidate(Compact(v)) = Ok THEN Returned(Compact(v)) ELSE Raised(StructuredOutputError)

\* C11 as stated: a JSON-mode response made of one JSON object followed by
\* any trailing non-JSON text is decoded to the result of validating the
\* embedded object alone
C11_AnyTrailingText ==
    (pc = "json_mode_decoded" /\ ObjectThenText(argument))
        => returned = ValidatedAlone(EmbeddedObject(argument))

\* C11 amended: a JSON-mode response made of one JSON object followed by
\* trailing non-JSON text without a closing brace is decoded to the result
\* of validating the embedded object alone
C11_TrailingTextWithoutBrace ==
    ( /\ pc = "json_mode_decoded"
      /\ ObjectThenText(argument)
      /\ RFind(TrailingText(argument), "}") = 0 )
        => returned = ValidatedAlone(EmbeddedObject(argument))

C11_Witness ==
    /\ pc = "json_mode_decoded"
    /\ argument = << "{", "a", "}", " ", "a" >>
    /\ returned = Returned(<< "{", "a", "}" >>)


(***************************************************************************)
(* SchemaCompiler: the transform of a compiled tool union                  *)
(***************************************************************************)
\* the longest list value of a tool-call field that is enumerated
MaxListLen == 2

\* the name of a tool type: BaseTool.__init_subclass__ lower-cases the class
\* name
ToolName(t) ==
    CASE t = ClarificationTool -> "clarificationtool"
      [] t = GeneratePlanTool -> "generateplantool"
      [] t = AdaptPlanTool -> "adaptplantool"
      [] t = AgentCompletionTool -> "agentcompletiontool"
      [] t = WebSearchTool -> "websearchtool"
      [] t = CreateReportTool -> "createreporttool"
      [] OTHER -> "custommaptool"

SupportedTools ==
    {ClarificationTool, GeneratePlanTool, AdaptPlanTool, AgentCompletionTool,
     WebSearchTool, CreateReportTool}

\* the declared fields of a tool type, in order, with their annotations
ToolFields(t) ==
    CASE t = ClarificationTool ->
            << <<"reasoning", "str">>, <<"unclear_terms", "list">>,
               <<"assumptions", "list">>, <<"questions", "list">> >>
      [] t = GeneratePlanTool ->
            << <<"reasoning", "str">>, <<"research_goal", "str">>,
               <<"planned_steps", "list">>, <<"search_strategies", "list">> >>
      [] t = AdaptPlanTool ->
            << <<"reasoning", "str">>, <<"original_goal", "str">>, <<"new_goal", "str">>,
               <<"plan_changes", "list">>, <<"next_steps", "list">> >>
      [] t = AgentCompletionTool ->
            << <<"reasoning", "str">>, <<"completed_steps", "list">>, <<"status", "status">> >>
      [] t = WebSearchTool ->
            << <<"reasoning", "str">>, <<"query", "str">>, <<"max_results", "int">>,
               <<"scrape_content", "bool">> >>
      [] t = CreateReportTool ->
            << <<"reasoning", "str">>, <<"title", "str">>,
               <<"user_request_language_reference", "str">>, <<"content", "str">>,
               <<"confidence", "confidence">> >>
      [] OTHER -> << <<"reasoning", "str">>, <<"mapping", "dict">> >>

\* a field value: its JSON type and its items as text (one item for a scalar)
Scalar(ty, x) == [type |-> ty, items |-> << x >>]

Lists == UNION { [1..n -> {"s", "t"}] : n \in 1..MaxListLen }

\* the values a field of annotation a can hold
ValuesOf(a) ==
    CASE a = "str" -> { Scalar("string", "s"), Scalar("string", "t") }
      [] a = "list" -> { [type |-> "array", items |-> l] : l \in Lists }
      [] a = "int" -> { Scalar("integer", "1"), Scalar("integer", "10") }
      [] a = "bool" -> { Scalar("boolean", "true"), Scalar("boolean", "false") }
      [] a = "status" -> { Scalar("string", "completed"), Scalar("string", "failed") }
      [] a = "confidence" -> { Scalar("string", "high"), Scalar("string", "low") }

FieldNames(t) == { ToolFields(t)[i][1] : i \in DOMAIN ToolFields(t) }

AnnotationOf(t, f) ==
    LET i == CHOOSE j \in DOMAIN ToolFields(t) : ToolFields(t)[j][1] = f
    IN  ToolFields(t)[i][2]

\* Python dicts keep insertion order: a dict is a sequence of entries with
\* distinct keys
Entry(k, v) == [key |-> k, value |-> v]
DictKeys(d) == { d[i].key : i \in DOMAIN d }
DictGet(d, k) == d[CHOOSE i \in DOMAIN d : d[i].key = k].value
DictSet(d, k, v) ==
    IF k \in DictKeys(d)
    THEN [i \in DOMAIN d |-> IF d[i].key = k THEN Entry(k, v) ELSE d[i]]
    ELSE Append(d, Entry(k, v))
DictPop(d, k) == SelectSeq(d, LAMBDA e : e.key # k)
AsMapping(d) == [k \in DictKeys(d) |-> DictGet(d, k)]

Discriminator == "tool_name_discriminator"

\* the instances of the discriminant version of tool type t, as dumped:
\* the declared fields, then the discriminator field
RECURSIVE CallsOver(_)
CallsOver(fields) ==
    IF fields = << >> THEN { << >> }
    ELSE { << Entry(Head(fields)[1], v) >> \o rest :
             v \in ValuesOf(Head(fields)[2]), rest \in CallsOver(Tail(fields)) }

TypedCalls(t) ==
    { Append(c, Entry(Discriminator, Scalar("string", ToolName(t)))) :
        c \in CallsOver(ToolFields(t)) }

\* the payload the compiled schema asks for: the discriminator travels as
\* the kind tag
WirePayload(call) ==
    << Entry("kind", DictGet(call, Discriminator)) >> \o DictPop(call, Discriminator)

\* json.dumps of an object: its members in order
JsonEncode(d) == [i \in DOMAIN d |-> [name |-> d[i].key, json |-> d[i].value]]

\* json.loads of an object: a dict, a repeated name keeps its last value
RECURSIVE JsonDecode(_)
JsonDecode(members) ==
    IF members = << >> THEN << >>
    ELSE LET m == members[Len(members)]
         IN  DictSet(JsonDecode(SubSeq(members, 1, Len(members) - 1)), m.name, m.json)

\* rename_key
RenameKey(data, old, new) ==
    IF old \in DictKeys(data) /\ new \notin DictKeys(data)
    THEN Append(DictPop(data, old), Entry(new, DictGet(data, old)))
    ELSE data

\* transform_list with its type test inverted
TransformList_Inverted(value) ==
    IF value.type = "array" THEN Raised(TypeError) ELSE Returned(value)

\* transform_list on a field value
TransformList(value) ==
    IF value.type # "array" THEN Raised(TypeError) ELSE Returned(value)

\* the renames of a compiled tool variant: kind is the discriminator field
RenamedKey(json_name) == IF json_name = "kind" THEN Discriminator ELSE json_name

\* the field transform registered for json_name in the variant of tool t
HasProcessor(t, json_name) ==
    json_name \in FieldNames(t) /\ AnnotationOf(t, json_name) = "list"

\* transform_payload of the variant of tool t: the entries of payload from
\* the i-th on are converted into converted
RECURSIVE TransformEntries(_, _, _, _)
TransformEntries(t, payload, i, converted) ==
    IF i > Len(payload) THEN Returned(converted)
    ELSE LET e == payload[i]
             processed == IF HasProcessor(t, e.key)
                          THEN TransformList(e.value)
                          ELSE Returned(e.value)
         IN  IF processed.error # Ok THEN processed
             ELSE TransformEntries(t, payload, i + 1,
                                   DictSet(converted, RenamedKey(e.key), processed.value))

TransformPayload(t, payload) == TransformEntries(t, payload, 1, << >>)

\* transform_union of the union compiled over the tool types kit
TransformUnion(kit, value) ==
    LET lookup == IF "kind" \in DictKeys(value) THEN DictGet(value, "kind")
                  ELSE IF Discriminator \in DictKeys(value) THEN DictGet(value, Discriminator)
                  ELSE Scalar("null", "null")
    IN  IF lookup.type = "null" THEN Raised(ValueError)
        ELSE IF \A t \in kit : ToolName(t) # lookup.items[1] THEN Raised(ValueError)
        ELSE LET variant == CHOOSE t \in kit : ToolName(t) = lookup.items[1]
             IN  TransformPayload(variant, RenameKey(value, "kind", Discriminator))

InitTransform ==
    /\ IdleAgent
    /\ SessionInit
    /\ RegistryInit
    /\ NoStructuredStream
    /\ argument \in UNION { TypedCalls(t) : t \in SupportedTools }
    /\ returned = None
    /\ pc = "payload_received"

\* the payload of the typed call goes over the wire and is transformed
TransformsPayload ==
    /\ pc = "payload_received"
    /\ returned' = TransformUnion(SupportedTools, JsonDecode(JsonEncode(WirePayload(argument))))
    /\ pc' = "payload_transformed"
    /\ UNCHANGED << config_vars, client_vars, session_vars, api_vars, stream_vars, argument,
                    iteration, searches_used, clarifications_used, state,
                    clarification_received, current_state_reasoning,
                    conversation, log, stream, tools, error >>

SpecTransform == InitTransform /\ [][TransformsPayload]_vars

\* C12: for every supported tool type and every valid payload of it, the
\* transform of the decoded encoded payload is the original typed tool call
\* field for field: the kind tag is the discriminator field with the same
\* value and no other field is added, dropped or changed
C12_RoundTrip ==
    pc = "payload_transformed" =>
        /\ returned.error = Ok
        /\ AsMapping(returned.value) = AsMapping(argument)
        /\ Len(returned.value) = Len(argument)

C12_Witness ==
    /\ pc = "payload_transformed"
    /\ returned.error = Ok
    /\ DictGet(returned.value, Discriminator) = Scalar("string", "websearchtool")
    /\ DictGet(returned.value, "max_results") = Scalar("integer", "10")
    /\ "kind" \notin DictKeys(returned.value)


(***************************************************************************)
(* SchemaCompiler.compile                                                  *)
(***************************************************************************)
\* a type annotation: its origin ("str", "int", "float", "bool", "enum",
\* "none", "any", "list", "dict", "tuple", "literal", "union", "annotated",
\* "model"), its arguments, the fields of a model, the values of a literal
\* or an enumeration
Annotation(o, as, fs, vs) == [origin |-> o, args |-> as, fields |-> fs, values |-> vs]
Atom(o) == Annotation(o, << >>, << >>, << >>)
ListOf(a) == Annotation("list", << a >>, << >>, << >>)
DictOf(k, v) == Annotation("dict", << k, v >>, << >>, << >>)
TupleOf(as) == Annotation("tuple", as, << >>, << >>)
LiteralOf(vs) == Annotation("literal", << >>, << >>, vs)
EnumOf(vs) == Annotation("enum", << >>, << >>, vs)
UnionOf(as) == Annotation("union", as, << >>, << >>)
AnnotatedOf(a) == Annotation("annotated", << a >>, << >>, << >>)
ModelOf(fs) == Annotation("model", << >>, fs, << >>)

\* a model field: its name, its annotation, its default (None: no default)
FieldInfo(n, a, d) == [name |-> n, annotation |-> a, default |-> d]

\* a JSON Schema: its type ("object", "array", "string", ..., "oneOf" for a
\* union), properties, items or branches, enum values, discriminator
\* property name, additionalProperties and required names
Schema(ty, ps, sub, en, disc, addl, req) ==
    [type |-> ty, properties |-> ps, sub |-> sub, enum |-> en,
     discriminator |-> disc, additionalProperties |-> addl, required |-> req]
Property(n, sch) == [name |-> n, schema |-> sch]
NoSchema == Schema("none", << >>, << >>, << >>, "", FALSE, << >>)
ScalarSchema(ty) == Schema(ty, << >>, << >>, << >>, "", FALSE, << >>)
EnumSchema(ty, vs) == Schema(ty, << >>, << >>, vs, "", FALSE, << >>)

\* a CompiledShape, or the exception raised instead
Shape(sch, dv) == [error |-> Ok, schema |-> sch, discriminator_value |-> dv]
TooComplex == [error |-> SchemaTooComplexError, schema |-> NoSchema, discriminator_value |-> ""]

\* SchemaCompiler() of the library: additional properties are not allowed
allow_additional_properties == FALSE

IsDiscriminatorField(n) == n = Discriminator

RECURSIVE CompileAnnotation(_)
RECURSIVE CompileModel(_)
RECURSIVE CompileFields(_, _, _, _, _)
RECURSIVE CompileVariants(_, _, _)

\* the loop of _compile_model over the fields from the i-th on
CompileFields(fs, i, props, required, dv) ==
    IF i > Len(fs)
    THEN Shape(Schema("object", props, << >>, << >>, "", allow_additional_properties, required), dv)
    ELSE LET f == fs[i] IN
         IF IsDiscriminatorField(f.name)
         THEN IF f.default = None THEN TooComplex
              ELSE CompileFields(fs, i + 1,
                                 Append(props, Property("kind", EnumSchema("string", << f.default >>))),
                                 Append(required, "kind"), f.default)
         ELSE LET c == CompileAnnotation(f.annotation) IN
              IF c.error # Ok THEN TooComplex
              ELSE CompileFields(fs, i + 1, Append(props, Property(f.name, c.schema)),
                                 IF f.default = None THEN Append(required, f.name) ELSE required,
                                 dv)

CompileModel(model) == CompileFields(model.fields, 1, << >>, << >>, "")

\* line 182: the variants of a union from the i-th on are compiled
CompileVariants(as, i, done) ==
    IF i > Len(as) THEN [error |-> Ok, variants |-> done]
    ELSE LET c == CompileModel(as[i]) IN
         IF c.error # Ok THEN [error |-> c.error, variants |-> << >>]
         ELSE CompileVariants(as, i + 1, Append(done, c))

\* lines 174-207: a union
CompileUnion(a) ==
    LET args == SelectSeq(a.args, LAMBDA x : x.origin # "none") IN
    IF args = << >> THEN TooComplex
    ELSE IF Len(args) = 1 THEN CompileAnnotation(args[1])
    ELSE IF \E j \in DOMAIN args : args[j].origin # "model" THEN TooComplex
    ELSE LET cv == CompileVariants(args, 1, << >>) IN
         IF cv.error # Ok THEN TooComplex
         ELSE IF \E j \in DOMAIN cv.variants : cv.variants[j].discriminator_value = "" THEN TooComplex
         ELSE Shape(Schema("oneOf", << >>, [j \in DOMAIN cv.variants |-> cv.variants[j].schema],
                           << >>, "kind", FALSE, << >>), "")

\* _compile_annotation
CompileAnnotation(a) ==
    CASE a.origin = "annotated" -> CompileAnnotation(a.args[1])
      [] a.origin = "model" ->
            LET nested == CompileModel(a) IN
            IF nested.error # Ok THEN TooComplex ELSE Shape(nested.schema, "")
      [] a.origin = "enum" -> Shape(EnumSchema("string", a.values), "")
      [] a.origin = "str" -> Shape(ScalarSchema("string"), "")
      [] a.origin = "int" -> Shape(ScalarSchema("integer"), "")
      [] a.origin = "float" -> Shape(ScalarSchema("number"), "")
      [] a.origin = "bool" -> Shape(ScalarSchema("boolean"), "")
      [] a.origin = "list" ->
            LET item == CompileAnnotation(a.args[1]) IN
            IF item.error # Ok THEN TooComplex
            ELSE Shape(Schema("array", << >>, << item.schema >>, << >>, "", FALSE, << >>), "")
      [] a.origin = "dict" -> TooComplex
      [] a.origin = "literal" ->
            IF a.values = << >> THEN TooComplex ELSE Shape(EnumSchema("string", a.values), "")
      [] a.origin = "tuple" -> TooComplex
      [] a.origin = "union" -> CompileUnion(a)
      [] OTHER -> TooComplex

\* SchemaCompiler.compile
Compile(model) == CompileModel(model)


\* the longest list of tool types that is enumerated
MaxToolsListLen == 2
\* how deep lists, records and optionals are nested around the probed
\* annotations
MaxNesting == 1

AllToolTypes == SupportedTools \cup {CustomMapTool}

\* the annotation of a declared tool field
FieldAnnotation(a) ==
    CASE a = "str" -> Atom("str")
      [] a = "list" -> ListOf(Atom("str"))
      [] a = "int" -> Atom("int")
      [] a = "bool" -> Atom("bool")
      [] a = "status" -> LiteralOf(<< "completed", "failed" >>)
      [] a = "confidence" -> LiteralOf(<< "high", "medium", "low" >>)
      [] a = "dict" -> DictOf(Atom("str"), Atom("str"))

\* the default of a declared tool field (None: the field is required)
FieldDefault(f) ==
    CASE f = "max_results" -> "10"
      [] f = "scrape_content" -> "False"
      [] OTHER -> None

\* NextStepToolsBuilder._create_discriminant_tool
DiscriminantTool(t) ==
    ModelOf([i \in DOMAIN ToolFields(t) |->
                FieldInfo(ToolFields(t)[i][1], FieldAnnotation(ToolFields(t)[i][2]),
                          FieldDefault(ToolFields(t)[i][1]))]
            \o << FieldInfo(Discriminator, LiteralOf(<< ToolName(t) >>), ToolName(t)) >>)

\* NextStepToolsBuilder._create_tool_types_union
ToolTypesUnion(tools_list) ==
    IF Len(tools_list) = 1 THEN DiscriminantTool(tools_list[1])
    ELSE AnnotatedOf(UnionOf([i \in DOMAIN tools_list |-> DiscriminantTool(tools_list[i])]))

\* NextStepToolsBuilder.build_NextStepTools
BuildNextStepTools(tools_list) ==
    ModelOf(<< FieldInfo("reasoning_steps", ListOf(Atom("str")), None),
               FieldInfo("current_situation", Atom("str"), None),
               FieldInfo("plan_status", Atom("str"), None),
               FieldInfo("enough_data", Atom("bool"), "False"),
               FieldInfo("remaining_steps", ListOf(Atom("str")), None),
               FieldInfo("task_completed", Atom("bool"), None),
               FieldInfo("function", ToolTypesUnion(tools_list), None) >>)

ToolsLists == UNION { [1..n -> AllToolTypes] : n \in 1..MaxToolsListLen }

\* records without and with a discriminator field
PlainRecord == ModelOf(<< FieldInfo("x", Atom("str"), None) >>)
TaggedRecord(n) ==
    ModelOf(<< FieldInfo("x", Atom("str"), None),
               FieldInfo(Discriminator, LiteralOf(<< n >>), n) >>)

ProbeAtoms ==
    { Atom("str"), Atom("int"), Atom("float"), Atom("bool"), Atom("any"),
      EnumOf(<< "a", "b" >>), LiteralOf(<< "a", "b" >>),
      DictOf(Atom("str"), Atom("int")), TupleOf(<< Atom("str"), Atom("int") >>),
      PlainRecord, TaggedRecord("a") }

UnionMembers ==
    { Atom("str"), Atom("int"), Atom("none"), PlainRecord, TaggedRecord("a"), TaggedRecord("b") }

ProbeUnions ==
    { UnionOf(<< m[1], m[2] >>) : m \in { p \in UnionMembers \X UnionMembers : p[1] # p[2] } }
        \cup { UnionOf(<< TaggedRecord("a"), TaggedRecord("b"), Atom("none") >>) }

RECURSIVE Probes(_)
Probes(n) ==
    IF n = 0 THEN ProbeAtoms \cup ProbeUnions
    ELSE LET p == Probes(n - 1) IN
         p \cup { ListOf(a) : a \in p }
           \cup { ModelOf(<< FieldInfo("inner", a, None) >>) : a \in p }
           \cup { UnionOf(<< a, Atom("none") >>) : a \in { x \in p : x.origin # "union" } }

\* the models handed to the compiler: next-step models over a list of tool
\* types, and records with one field of a probed annotation
CompilerInputs ==
    { [tools_list |-> l, model |-> BuildNextStepTools(l)] : l \in ToolsLists }
        \cup { [tools_list |-> << >>, model |-> ModelOf(<< FieldInfo("value", a, None) >>)] :
                 a \in Probes(MaxNesting) }

InitCompile ==
    /\ IdleAgent
    /\ SessionInit
    /\ RegistryInit
    /\ NoStructuredStream
    /\ argument \in CompilerInputs
    /\ returned = None
    /\ pc = "compile"

\* SchemaCompiler.compile is called on the model
Compiles ==
    /\ pc = "compile"
    /\ returned' = Compile(argument.model)
    /\ pc' = "compiled"
    /\ UNCHANGED << config_vars, client_vars, session_vars, api_vars, stream_vars, argument,
                    iteration, searches_used, clarifications_used, state,
                    clarification_received, current_state_reasoning,
                    conversation, log, stream, tools, error >>

SpecCompile == InitCompile /\ [][Compiles]_vars

\* the schema of property n of an object schema
PropertySchema(sch, n) ==
    sch.properties[CHOOSE i \in DOMAIN sch.properties : sch.properties[i].name = n].schema

HasProperty(sch, n) == \E i \in DOMAIN sch.properties : sch.properties[i].name = n

\* C13: for every list of two or more tool types the compiled next-step
\* schema's function property has the discriminator kind and one oneOf
\* branch per input tool, each branch declaring a string kind whose single
\* enum value is that tool's name and additionalProperties false, and the
\* branch discriminator values are pairwise distinct
C13_UniqueDiscriminators ==
    (pc = "compiled" /\ Len(argument.tools_list) >= 2 /\ returned.error = Ok) =>
        LET fn == PropertySchema(returned.schema, "function")
            l == argument.tools_list
        IN  /\ fn.discriminator = "kind"
            /\ Len(fn.sub) = Len(l)
            /\ \A i \in DOMAIN fn.sub :
                  /\ HasProperty(fn.sub[i], "kind")
                  /\ PropertySchema(fn.sub[i], "kind").type = "string"
                  /\ PropertySchema(fn.sub[i], "kind").enum = << ToolName(l[i]) >>
                  /\ fn.sub[i].additionalProperties = FALSE
            /\ \A i, j \in DOMAIN fn.sub :
                  i # j => PropertySchema(fn.sub[i], "kind").enum # PropertySchema(fn.sub[j], "kind").enum
            /\ Cardinality({ PropertySchema(fn.sub[i], "kind").enum : i \in DOMAIN fn.sub }) = Len(l)

\* a is a union of records that all carry a discriminator with a default
UnionOfTagged(a) ==
    \A i \in DOMAIN a.args :
        /\ a.args[i].origin = "model"
        /\ \E k \in DOMAIN a.args[i].fields :
              /\ IsDiscriminatorField(a.args[i].fields[k].name)
              /\ a.args[i].fields[k].default # None

\* a contains a key-map, a tuple, or a union that is not a union of
\* discriminated records
RECURSIVE ContainsUnsupported(_)
ContainsUnsupported(a) ==
    \/ a.origin \in {"dict", "tuple"}
    \/ a.origin = "union" /\ ~UnionOfTagged(a)
    \/ \E i \in DOMAIN a.args : ContainsUnsupported(a.args[i])
    \/ \E k \in DOMAIN a.fields : ContainsUnsupported(a.fields[k].annotation)

\* C20: compile raises SchemaTooComplexError, and returns no schema, for
\* every type that contains a key-map field, a tuple field, or a union that
\* is not a union of discriminated records
C20_UnsupportedRejected ==
    (pc = "compiled" /\ ContainsUnsupported(argument.model))
        => returned.error = SchemaTooComplexError

(***************************************************************************)
(* WebSearchTool.__call__: the sources of one session                      *)
(***************************************************************************)
\* the most results one search returns
MaxResults == 2
\* the most searches made in one session
MaxSearchCalls == 3

\* the URLs the search service can return
Urls == {"u1", "u2"}

\* what TavilySearchService.search can return: its results with a URL, in
\* order
SearchResults == UNION { [1..n -> Urls] : n \in 0..MaxResults }

\* TavilySearchService.rearrange_sources
RearrangeSources(results, starting_number) ==
    [i \in DOMAIN results |-> [url |-> results[i], number |-> starting_number + i - 1]]

\* lines 113-114: every source is stored under its URL
RECURSIVE StoreSources(_, _)
StoreSources(dict, srcs) ==
    IF srcs = << >> THEN dict
    ELSE StoreSources(DictSet(dict, Head(srcs).url, Head(srcs).number), Tail(srcs))

InitSearch ==
    /\ IdleAgent
    /\ SessionInit
    /\ RegistryInit
    /\ NoStructuredStream
    /\ NoCall
    /\ pc = "session"

\* WebSearchTool.__call__ with the search service returning results
WebSearch(results) ==
    /\ pc = "session"
    /\ Len(searches) < MaxSearchCalls
    /\ LET numbered == RearrangeSources(results, Len(sources) + 1) IN
        /\ sources' = StoreSources(sources, numbered)
        /\ searches' = Append(searches, numbered)
    /\ searches_used' = searches_used + 1
    /\ UNCHANGED << config_vars, client_vars, api_vars, stream_vars, call_vars, pc,
                    iteration, clarifications_used, state,
                    clarification_received, current_state_reasoning,
                    conversation, log, stream, tools, error >>

NextSearch == \E results \in SearchResults : WebSearch(results)

SpecSearch == InitSearch /\ [][NextSearch]_vars

RECURSIVE SumLen(_)
SumLen(ss) == IF ss = << >> THEN 0 ELSE Len(Head(ss)) + SumLen(Tail(ss))

\* the Source numbers assigned by the searches made so far
AssignedNumbers ==
    UNION { { searches[i][j].number : j \in DOMAIN searches[i] } : i \in DOMAIN searches }

\* C14: across the searches of one session returning k1, ..., kN sources,
\* the Source numbers assigned are exactly 1 .. k1+...+kN, none missing and
\* none assigned twice.
C14_SequentialNumbering ==
    pc = "session" => AssignedNumbers = 1..SumLen(searches)

(***************************************************************************)
(* api/endpoints.py: the agent registry and its request handlers           *)
(***************************************************************************)
\* the most agents one API process creates
MaxAgents == 2
\* the most clarifications given to the agents of one process
ApiClarCap == 1

\* a string, by what _is_agent_id reads of it; suffix tells the uuids apart
Str(text, suffix, underscore, length) ==
    [text |-> text, suffix |-> suffix, underscore |-> underscore, length |-> length]

\* api/models.py: the values of the AgentModel enum
SGR_AGENT == Str("sgr-agent", 0, FALSE, 9)
AgentModel ==
    { SGR_AGENT,
      Str("sgr-tools-agent", 0, FALSE, 15),
      Str("sgr-auto-tools-agent", 0, FALSE, 20),
      Str("sgr-so-tools-agent", 0, FALSE, 18),
      Str("tools-agent", 0, FALSE, 11) }

\* request.model left null
NoModel == Str("None", 0, FALSE, 0)

\* model names that are not values of AgentModel
UnknownModels ==
    { Str("gpt-4o", 0, FALSE, 6), Str("my_custom_research_agent", 0, TRUE, 24) }

\* BaseAgent.__init__ line 46: "base_agent_" and a uuid4
AgentId(n) == Str("base_agent_", n, TRUE, 47)

\* the ids of the agents a process creates, in order of creation
CreatedIds == { AgentId(n) : n \in 1..MaxAgents }
\* an id no agent of the process has
UnknownAgentId == AgentId(0)

_is_agent_id(model_str) == model_str.underscore /\ model_str.length > 20

\* an agent of the registry: its Research Context, its conversation and the
\* position of its execute task
ApiAgent(st, used, received, conv, at) ==
    [state |-> st, clarifications_used |-> used,
     clarification_received |-> received, conversation |-> conv,
     position |-> at, own_state |-> None]

TaskTurn == [role |-> "user", kind |-> "task", id |-> 0]

TOOLS_AGENT == Str("tools-agent", 0, FALSE, 11)

\* ToolCallingResearchAgent keeps its lifecycle state in an attribute of its
\* own, state (tools_agent.py:46), which the agents that keep it in
\* _context.state do not have
HasOwnState(agent) == agent.own_state # None

\* agent_class(task=task) for the class AGENT_MODEL_MAPPING gives the model:
\* the task created at line 160 has not run yet
NewAgent(model) ==
    IF model = TOOLS_AGENT
    THEN [ApiAgent(INITED, 0, FALSE, << >>, "created") EXCEPT !.own_state = INITED]
    ELSE ApiAgent(INITED, 0, FALSE, << >>, "created")

\* provide_clarification of the agent's class on an agent of the registry
AgentProvideClarification(agent) ==
    IF HasOwnState(agent)
    THEN [agent EXCEPT !.conversation = Append(@, ClarificationTurn),
                       !.clarifications_used = @ + 1,
                       !.clarification_received = TRUE,
                       !.own_state = RESEARCHING]
    ELSE [agent EXCEPT !.conversation = Append(@, ClarificationTurn),
                       !.clarifications_used = @ + 1,
                       !.clarification_received = TRUE,
                       !.state = RESEARCHING]

\* a ChatCompletionRequest and the route it is posted to
Request(op, agent_id, model, stream_, has_user) ==
    [op |-> op, agent_id |-> agent_id, model |-> model,
     stream |-> stream_, has_user_message |-> has_user]

\* the models named by the requests made: two values of AgentModel, the
\* names that are none, the ids of agents and no model
RequestModels ==
    {SGR_AGENT, TOOLS_AGENT} \cup UnknownModels
        \cup CreatedIds \cup {UnknownAgentId, NoModel}

\* stream and the presence of a user message: a well-formed request, one
\* that is not streaming, one without a user message
RequestShapes == { << TRUE, TRUE >>, << FALSE, TRUE >>, << TRUE, FALSE >> }

Requests ==
    { Request("provide_clarification", id, SGR_AGENT, sh[1], sh[2]) :
        id \in CreatedIds \cup {UnknownAgentId}, sh \in RequestShapes }
    \cup
    { Request("create_chat_completion", NoModel, m, sh[1], sh[2]) :
        m \in RequestModels, sh \in RequestShapes }

\* what a handler leaves behind: the registry and the status of the response
Handled(storage, status) == [storage |-> storage, status |-> status]

\* the id of the next agent created
NextAgentId(storage) ==
    AgentId(CHOOSE n \in 1..MaxAgents + 1 :
                /\ AgentId(n) \notin DictKeys(storage)
                /\ \A m \in 1..n - 1 : AgentId(m) \in DictKeys(storage))

\* the handler of agents/{agent_id}/provide_clarification
provide_clarification(storage, agent_id, request) ==
    IF ~request.stream THEN Handled(storage, 501)
    ELSE IF ~request.has_user_message THEN Handled(storage, 400)
    ELSE IF agent_id \notin DictKeys(storage) THEN Handled(storage, 500)
    ELSE Handled(DictSet(storage, agent_id,
                         AgentProvideClarification(DictGet(storage, agent_id))),
                 200)

\* lines 137-152: the agent model of a create request, None when it is
\* rejected
ResolveAgentModel(model) ==
    IF model # NoModel /\ _is_agent_id(model) THEN SGR_AGENT
    ELSE IF model = NoModel THEN SGR_AGENT
    ELSE IF model \in AgentModel THEN model
    ELSE NoModel

\* the handler of /v1/chat/completions
create_chat_completion(storage, request) ==
    IF ~request.stream THEN Handled(storage, 501)
    ELSE IF /\ request.model # NoModel
            /\ _is_agent_id(request.model)
            /\ request.model \in DictKeys(storage)
            /\ DictGet(storage, request.model).state = WAITING_FOR_CLARIFICATION
    THEN provide_clarification(storage, request.model, request)
    ELSE IF ~request.has_user_message THEN Handled(storage, 400)
    ELSE IF ResolveAgentModel(request.model) = NoModel THEN Handled(storage, 500)
    ELSE Handled(DictSet(storage, NextAgentId(storage),
                         NewAgent(ResolveAgentModel(request.model))), 200)

Handle(storage, request) ==
    IF request.op = "provide_clarification"
    THEN provide_clarification(storage, request.agent_id, request)
    ELSE create_chat_completion(storage, request)

\* the clarifications given to the agents of a registry
RECURSIVE ClarificationsGiven(_)
ClarificationsGiven(storage) ==
    IF storage = << >> THEN 0
    ELSE Head(storage).value.clarifications_used + ClarificationsGiven(Tail(storage))

api_frame ==
    UNCHANGED << config_vars, client_vars, session_vars, stream_vars, call_vars, pc,
                 iteration, searches_used, clarifications_used, state,
                 clarification_received, current_state_reasoning,
                 conversation, log, stream, tools, error >>

InitApi ==
    /\ IdleAgent
    /\ SessionInit
    /\ RegistryInit
    /\ NoStructuredStream
    /\ NoCall
    /\ pc = "serving"

\* a request arrives and its handler runs to the response; no handler
\* suspends before its response is made
Serves(request) ==
    /\ pc = "serving"
    /\ LET handled == Handle(agents_storage, request) IN
        /\ Len(handled.storage) <= MaxAgents
        /\ ClarificationsGiven(handled.storage) <= ApiClarCap
        /\ agents_storage' = handled.storage
        /\ http_status' = handled.status
    /\ api_frame

\* the execute task of an agent of the registry makes one move
Moves(id, agent) ==
    /\ pc = "serving"
    /\ agents_storage' = DictSet(agents_storage, id, agent)
    /\ UNCHANGED http_status
    /\ api_frame

\* execute starts: lines 201-209
ExecuteStarts(id) ==
    LET agent == DictGet(agents_storage, id) IN
    /\ agent.position = "created"
    /\ Moves(id, [agent EXCEPT !.conversation = Append(@, TaskTurn),
                               !.position = "running"])

\* an iteration selects the clarification tool: base_agent.py lines 220-225,
\* tools_agent.py lines 139-143
ExecutePauses(id) ==
    LET agent == DictGet(agents_storage, id) IN
    /\ agent.position = "running"
    /\ IF HasOwnState(agent)
       THEN Moves(id, [agent EXCEPT !.own_state = WAITING_FOR_CLARIFICATION,
                                    !.clarification_received = FALSE,
                                    !.position = "waiting"])
       ELSE /\ agent.state \notin FINISH_STATES
            /\ Moves(id, [agent EXCEPT !.state = WAITING_FOR_CLARIFICATION,
                                       !.clarification_received = FALSE,
                                       !.position = "waiting"])

\* the wait of line 225 returns
ExecuteResumes(id) ==
    LET agent == DictGet(agents_storage, id) IN
    /\ agent.position = "waiting"
    /\ agent.clarification_received
    /\ Moves(id, [agent EXCEPT !.position = "running"])

\* an iteration ends the run: the completion tool sets its status in the
\* context; ToolCallingResearchAgent ends on ReportCompletion and sets its
\* own state (tools_agent.py lines 144-147)
ExecuteEnds(id, status) ==
    LET agent == DictGet(agents_storage, id) IN
    /\ agent.position = "running"
    /\ IF HasOwnState(agent)
       THEN /\ status = COMPLETED
            /\ Moves(id, [agent EXCEPT !.own_state = COMPLETED, !.position = "done"])
       ELSE /\ agent.state \notin FINISH_STATES
            /\ Moves(id, [agent EXCEPT !.state = status, !.position = "done"])

\* an iteration raises and the run ends: base_agent.py lines 228-230 set
\* _context.state, tools_agent.py lines 113-115 and 148-150 only log
ExecuteFails(id) ==
    LET agent == DictGet(agents_storage, id) IN
    /\ agent.position = "running"
    /\ IF HasOwnState(agent)
       THEN Moves(id, [agent EXCEPT !.position = "failed"])
       ELSE /\ agent.state \notin FINISH_STATES
            /\ Moves(id, [agent EXCEPT !.state = FAILED, !.position = "failed"])

NextApi ==
    \/ \E request \in Requests : Serves(request)
    \/ \E id \in DictKeys(agents_storage) : ExecuteStarts(id)
    \/ \E id \in DictKeys(agents_storage) : ExecutePauses(id)
    \/ \E id \in DictKeys(agents_storage) : ExecuteResumes(id)
    \/ \E id \in DictKeys(agents_storage), status \in FINISH_STATES :
            ExecuteEnds(id, status)
    \/ \E id \in DictKeys(agents_storage) : ExecuteFails(id)

SpecApi == InitApi /\ [][NextApi]_vars

\* a request that is streaming and carries a user message
WellFormed(request) == request.stream /\ request.has_user_message

\* the agent a request addresses: the id of the route, or the id given as
\* the model of a chat completion
Addressee(request) ==
    IF request.op = "provide_clarification" THEN request.agent_id ELSE request.model

ClientErrors == 400..499

\* C15: a clarification submitted for an agent that is not in
\* WAITING_FOR_CLARIFICATION is answered with a client error and changes
\* nothing: the agent's conversation, clarifications_used, signal and state
\* stay as they were and no agent is added to the registry.
C15_Step ==
    \A request \in Requests :
        ( /\ Serves(request)
          /\ WellFormed(request)
          /\ Addressee(request) \in DictKeys(agents_storage)
          /\ DictGet(agents_storage, Addressee(request)).state
                 # WAITING_FOR_CLARIFICATION )
        => /\ http_status' \in ClientErrors
           /\ agents_storage' = agents_storage
C15_NotWaitingRejected == [][C15_Step]_vars

\* a clarification for an id no agent has, or a create request naming a model
\* that is no agent model
InvalidRequest(request) ==
    \/ /\ request.op = "provide_clarification"
       /\ request.agent_id \notin DictKeys(agents_storage)
    \/ /\ request.op = "create_chat_completion"
       /\ request.model \in UnknownModels

\* C16: an invalid request (a clarification for an unknown agent id, a create
\* request naming an unknown agent model) is answered with an HTTP 4xx status,
\* never 5xx, and leaves the registry and every agent unchanged.
C16_Step ==
    \A request \in Requests :
        (Serves(request) /\ WellFormed(request) /\ InvalidRequest(request))
        => /\ http_status' \in ClientErrors
           /\ agents_storage' = agents_storage
C16_InvalidRequestIsClientError == [][C16_Step]_vars

(***************************************************************************)
(* The lifecycle state of one agent                                        *)
(***************************************************************************)
\* C17: COMPLETED and FAILED are terminal: once the lifecycle state is one of
\* them, no later agent step and no later provide_clarification call changes
\* it.
C17_Step == state \in FINISH_STATES => state' = state
C17_TerminalStatesStay == [][C17_Step]_vars

\* the positions of execute inside a reasoning, action-selection or action
\* phase
PhasePositions == {"stage", "response", "reasoning_return", "select", "action"}

\* C18: execute moves the agent from INITED to RESEARCHING before the first
\* iteration: whenever a reasoning, action-selection or action phase is
\* running, the lifecycle state is RESEARCHING.
C18_ResearchingInPhases == pc \in PhasePositions => state = RESEARCHING

(***************************************************************************)
(* The permitted tool set computed twice                                   *)
(***************************************************************************)
\* what _prepare_tools reads, and the rest of the Research Context
PrepareToolsInputs ==
    << iteration, searches_used, clarifications_used, state, sources, searches,
       toolkit, max_iterations, max_clarifications, max_searches >>

\* C19: computing the permitted tool set twice in a row on an unchanged
\* Research Context yields the same set both times, and a computation changes
\* neither the context (iteration, budgets used, state, sources) nor the
\* agent's toolkit.
C19_Step ==
    /\ (ComputePermittedTools \/ RecomputePermittedTools)
           => UNCHANGED PrepareToolsInputs
    /\ RecomputePermittedTools => returned' = tools
MaxChunks == 2

\* an LLMCompletionResult; strings are sequences of characters and the
\* empty sequence stands for None
LLMCompletionResult(content, parsed) == [content |-> content, parsed |-> parsed]

\* the results and chunk lists a completion coroutine can return
StreamResults ==
    { LLMCompletionResult(<< "{", "}" >>, << >>),
      LLMCompletionResult(<< "{", "a", "}" >>, << "{", "a", "}" >>) }
ChunkTexts == { << "c", "1" >>, << "c", "2" >> }
ChunkLists == UNION { [1..n -> ChunkTexts] : n \in 0..MaxChunks }

\* what awaiting the completion coroutine gives: a result with its chunks, or
\* the exception it raises
Completion(e, r, cs) == [error |-> e, result |-> r, chunks |-> cs]
NoResult == LLMCompletionResult(<< >>, << >>)
Completions ==
    { Completion(Ok, r, cs) : r \in StreamResults, cs \in ChunkLists }
        \cup { Completion(StructuredOutputError, NoResult, << >>) }

\* the fields of a stream; _iter is the position of iter(self._chunks), 0
\* while the field is None
StructuredStream(r, cs, it) == [_result |-> r, _chunks |-> cs, _iter |-> it]

\* what a method of the stream hands to its caller
Outcome(kind, value) == [kind |-> kind, value |-> value]
NothingReturned == Outcome(None, NoResult)
LLMStreamDelta(chunk) == Outcome("delta", LLMCompletionResult(chunk, << >>))
Raises(e) == Outcome(e, NoResult)

\* MistralStructuredStream(completion_coro)
InitStream ==
    /\ IdleAgent
    /\ SessionInit
    /\ RegistryInit
    /\ argument \in Completions
    /\ returned = NothingReturned
    /\ structured_stream = StructuredStream(NoResult, << >>, 0)
    /\ collected = << >>
    /\ pc = "stream_created"

stream_frame ==
    UNCHANGED << config_vars, client_vars, session_vars, api_vars, argument,
                 iteration, searches_used, clarifications_used, state,
                 clarification_received, current_state_reasoning,
                 conversation, log, stream, tools, error >>

\* lines 82-85: the completion coroutine is awaited and gives completion
Enter(completion) ==
    /\ pc = "stream_created"
    /\ IF completion.error = Ok
       THEN /\ structured_stream' =
                   StructuredStream(completion.result, completion.chunks, 1)
            /\ returned' = Outcome("self", NoResult)
            /\ pc' = "stream_entered"
       ELSE /\ returned' = Raises(completion.error)
            /\ pc' = "stream_exited"
            /\ UNCHANGED structured_stream
    /\ UNCHANGED collected

\* __aenter__ of a stream made over a coroutine that gives argument
AEnter ==
    /\ Enter(argument)
    /\ stream_frame

\* __aiter__
AIter ==
    /\ pc \in {"stream_created", "stream_entered"}
    /\ returned' = IF structured_stream._iter = 0
                   THEN Raises("RuntimeError")
                   ELSE Outcome("self", NoResult)
    /\ UNCHANGED << structured_stream, collected, pc >>
    /\ stream_frame

\* the iterator yielding its current chunk without moving on
NextChunk_Stuck(st) ==
    IF st._iter <= Len(st._chunks)
    THEN [stream |-> st, outcome |-> LLMStreamDelta(st._chunks[st._iter])]
    ELSE [stream |-> st, outcome |-> Raises("StopAsyncIteration")]

\* lines 97-101: next(self._iter)
NextChunk(st) ==
    IF st._iter <= Len(st._chunks)
    THEN [stream |-> [st EXCEPT !._iter = @ + 1],
          outcome |-> LLMStreamDelta(st._chunks[st._iter])]
    ELSE [stream |-> st, outcome |-> Raises("StopAsyncIteration")]

\* __anext__ called by the consumer's async for, which keeps what it is given
ANext ==
    /\ pc = "stream_entered"
    /\ Len(collected) <= MaxChunks
    /\ LET n == NextChunk(structured_stream) IN
        /\ structured_stream' = n.stream
        /\ returned' = n.outcome
        /\ collected' = IF n.outcome.kind = "delta"
                        THEN Append(collected, n.outcome.value.content)
                        ELSE collected
    /\ UNCHANGED pc
    /\ stream_frame

\* get_final_response
GetFinalResponse ==
    /\ pc \in {"stream_created", "stream_entered"}
    /\ returned' = IF structured_stream._result = NoResult
                   THEN Raises(StructuredOutputError)
                   ELSE Outcome("result", structured_stream._result)
    /\ UNCHANGED << structured_stream, collected, pc >>
    /\ stream_frame

\* __aexit__
AExit ==
    /\ pc = "stream_entered"
    /\ returned' = NothingReturned
    /\ pc' = "stream_exited"
    /\ UNCHANGED << structured_stream, collected >>
    /\ stream_frame

NextStream == AEnter \/ AIter \/ ANext \/ GetFinalResponse \/ AExit

SpecStream == InitStream /\ [][NextStream]_vars

IsPrefix(a, b) == Len(a) <= Len(b) /\ a = SubSeq(b, 1, Len(a))

\* C23: a MistralStructuredStream yields exactly the chunks its completion
\* coroutine returned, each once and in the same order, and then ends;
\* get_final_response afterwards returns the result that coroutine produced.
C23_Step ==
    /\ ANext =>
        /\ IsPrefix(collected', argument.chunks)
        /\ returned'.kind = "delta" => Len(collected') = Len(collected) + 1
        /\ returned'.kind = "StopAsyncIteration" => collected' = argument.chunks
    /\ (GetFinalResponse /\ pc = "stream_entered") =>
        returned' = Outcome("result", argument.result)
C23_StreamYieldsChunks == [][C23_Step]_vars

\* the stream has yielded both of two different chunks, has ended, and has
\* then given the final response
C23_Witness ==
    /\ pc = "stream_entered"
    /\ argument.chunks = << << "c", "1" >>, << "c", "2" >> >>
    /\ collected = argument.chunks
    /\ structured_stream._iter = 3
    /\ returned = Outcome("result", argument.result)

(***************************************************************************)
(* A structured completion, from the backend's answers to the stream       *)
(***************************************************************************)
\* the most members of the object the backend answers with
MaxMembers == 3
\* the characters model_dump_json(indent=2) writes besides the values of the
\* members: keys, quotes, separators
DumpOverhead == 248

\* utils.iter_json_chunks: the default chunk size
chunk_size == 128

Run(c, n) == [i \in 1..n |-> c]

\* the members of an object other than its tag; "k" is the member kind of the
\* wire format, "d" the member tool_name_discriminator of the model
Members(v) == SelectSeq(v, LAMBDA c : c = "a")

\* what the backend can answer to complete_async: an object tagged as the
\* compiled schema asks, tagged as the model is, or not tagged; an object
\* followed by prose; the beginning of an object; no text; an exception
TextShapes ==
    {"wire", "plain", "untagged", "trailing", "truncated", "empty",
     "raise_soe", "raise_other"}

ResponseText(shape, n) ==
    CASE shape = "wire" -> << "{", "k" >> \o Run("a", n) \o << "}" >>
      [] shape = "plain" -> << "{", "d" >> \o Run("a", n) \o << "}" >>
      [] shape = "untagged" -> << "{" >> \o Run("a", n) \o << "}" >>
      [] shape = "trailing" -> << "{", "k" >> \o Run("a", n) \o << "}", " ", "a" >>
      [] shape = "truncated" -> << "{", "k" >> \o Run("a", n)
      [] OTHER -> << >>

\* what the backend can answer to parse_async
ParseAnswers == {"parsed", "no_parsed", "no_choices", "raise_soe", "raise_other"}

\* response_model.model_validate: the model instance built from a decoded
\* object (members the model does not know, kind among them, are dropped),
\* or ValidationError when the tag or a required member is missing
ModelInstance(v) ==
    IF (\E i \in DOMAIN v : v[i] = "d")
            /\ ModelValidate(<< "{" >> \o Members(v) \o << "}" >>) = Ok
    THEN Returned(<< "{", "d" >> \o Members(v) \o << "}" >>)
    ELSE Raised(ValidationError)

\* the transform of the compiled schema (transform_union) on a decoded object
TransformWire(v) ==
    IF \A i \in DOMAIN v : v[i] \notin {"k", "d"} THEN Raised(ValueError)
    ELSE IF \E i \in DOMAIN v : v[i] = "d" THEN Returned(v)
    ELSE Returned([i \in DOMAIN v |-> IF v[i] = "k" THEN "d" ELSE v[i]])

\* model_dump_json(indent=2) of a model instance
Dump(v) ==
    << "{", " ", " ", " " >> \o Run("q", DumpOverhead)
        \o SubSeq(v, 2, Len(v) - 1) \o << " ", "}" >>

\* iter_json_chunks without its last, shorter chunk
IterJsonChunks_WholeOnly(payload, size) ==
    [k \in 1..(Len(payload) \div size) |->
        SubSeq(payload, (k - 1) * size + 1, k * size)]

\* utils.iter_json_chunks: payload[idx : idx + chunk_size] for idx in
\* range(0, len(payload), chunk_size)
IterJsonChunks(payload, size) ==
    [k \in 1..((Len(payload) + size - 1) \div size) |->
        SubSeq(payload, (k - 1) * size + 1,
               IF k * size < Len(payload) THEN k * size ELSE Len(payload))]

\* what a stage returns for the validated instance v: the result and the
\* chunks of its payload (lines 179, 185, 202)
StageSucceeds(v) ==
    Completion(Ok, LLMCompletionResult(Dump(v), v), IterJsonChunks(Dump(v), chunk_size))
StageRaises(e) == Completion(e, NoResult, << >>)

\* _call_parse: the SDK hands over a parsed model, or nothing, or raises
CallParse(answer, n) ==
    CASE answer = "parsed" ->
            IF ModelInstance(ResponseText("plain", n)).error = Ok
            THEN StageSucceeds(ModelInstance(ResponseText("plain", n)).value)
            ELSE StageRaises(ValidationError)
      [] answer = "raise_other" -> StageRaises(TransportError)
      [] OTHER -> StageRaises(StructuredOutputError)

\* lines 273-284 with the validation left out
Validated_Skipped(structured) == Returned(structured)

\* lines 278-281 and 320-323: the decoded object is validated
Validated(structured) ==
    IF ModelInstance(structured).error = Ok
    THEN ModelInstance(structured)
    ELSE Raised(StructuredOutputError)

\* the rest of a stage once the object is decoded: transform, validation,
\* dump
StageFinishes(parsed_json, c) ==
    LET structured == IF c THEN TransformWire(parsed_json) ELSE Returned(parsed_json)
    IN  IF structured.error # Ok THEN StageRaises(structured.error)
        ELSE IF Validated(structured.value).error # Ok
        THEN StageRaises(Validated(structured.value).error)
        ELSE StageSucceeds(Validated(structured.value).value)

\* _call_json_schema
CallJsonSchema(shape, n) ==
    LET text == ResponseText(shape, n) IN
    IF shape = "raise_other" THEN StageRaises(TransportError)
    ELSE IF shape = "raise_soe" \/ text = << >> THEN StageRaises(StructuredOutputError)
    ELSE IF JsonLoads(text).error # Ok THEN StageRaises(StructuredOutputError)
    ELSE StageFinishes(JsonLoads(text).value, TRUE)

\* _call_json_mode with the compiled schema (c) or without
CallJsonMode(shape, n, c) ==
    LET text == ResponseText(shape, n)
        parsed_json == IF JsonLoads(text).error = Ok THEN JsonLoads(text)
                       ELSE SoftJsonParse(text)
    IN  IF shape = "raise_other" THEN StageRaises(TransportError)
        ELSE IF shape = "raise_soe" \/ text = << >> THEN StageRaises(StructuredOutputError)
        ELSE IF parsed_json.error # Ok THEN StageRaises(StructuredOutputError)
        ELSE StageFinishes(parsed_json.value, c)

\* the answers the backend will give to one structured completion, and
\* whether the response model compiles
Script(n, compile, native, json_schema, json_mode) ==
    [n |-> n, compile |-> compile, native |-> native,
     json_schema |-> json_schema, json_mode |-> json_mode]

\* what _complete_structured has done once it returns or raises
Completed(completion, requested) == [completion |-> completion, calls |-> requested]

\* the loop of _complete_structured from stage i on, c telling whether a
\* compiled schema is held
RECURSIVE RunStages(_, _, _, _)
RunStages(order, i, c, script) ==
    IF i > Len(order) THEN Completed(StageRaises(StructuredOutputError), << >>)
    ELSE IF order[i] = "json_schema" /\ ~c /\ script.compile # Ok
    THEN RunStages(order, i + 1, FALSE, script)
    ELSE LET held == IF order[i] = "native" THEN c ELSE c \/ script.compile = Ok
             out == CASE order[i] = "native" -> CallParse(script.native, script.n)
                      [] order[i] = "json_schema" ->
                            CallJsonSchema(script.json_schema, script.n)
                      [] OTHER -> CallJsonMode(script.json_mode, script.n, held)
             rest == RunStages(order, i + 1, held, script)
         IN  IF out.error = StructuredOutputError
             THEN Completed(rest.completion, << order[i] >> \o rest.calls)
             ELSE Completed(out, << order[i] >>)

CompleteStructured(mode, script) == RunStages(ResolveStageOrder(mode), 1, FALSE, script)

\* the scripts of the backend; the answers of stages that are not in the
\* stage order are never asked for
Scripts(mode) ==
    { Script(n, c, p, js, jm) :
        n \in 0..MaxMembers, c \in {Ok, SchemaTooComplexError},
        p \in IF mode = "native" THEN ParseAnswers ELSE {"raise_soe"},
        js \in IF mode = "json_mode" THEN {"raise_soe"} ELSE TextShapes,
        jm \in TextShapes }

\* stream_chat_completion(request) with a response model: line 130
InitStructured ==
    /\ max_iterations = 1
    /\ max_clarifications = 0
    /\ max_searches = 0
    /\ so_mode \in StageNames
    /\ toolkit = AgentToolkit({})
    /\ ResearchContextInit
    /\ AgentInit
    /\ SessionInit
    /\ RegistryInit
    /\ argument \in Scripts(so_mode)
    /\ returned = NothingReturned
    /\ structured_stream = StructuredStream(NoResult, << >>, 0)
    /\ collected = << >>
    /\ pc = "stream_created"

\* __aenter__ of the stream made by stream_chat_completion:
\* _complete_structured runs
StructuredEnter ==
    /\ LET done == CompleteStructured(so_mode, argument) IN
        /\ Enter(done.completion)
        /\ calls' = done.calls
    /\ UNCHANGED << config_vars, session_vars, api_vars, argument,
                    stage_idx, compiled, response, result,
                    iteration, searches_used, clarifications_used, state,
                    clarification_received, current_state_reasoning,
                    conversation, log, stream, tools, error >>

\* MistralChatClient.stream_chat_completion of llm_client.py once the
\* backend's stream has ended (lines 304-330): the streamed text is
\* validated against the response format, parsed stays None when that fails
ParseStreamed(full_content) ==
    IF full_content # << >> /\ JsonLoads(full_content).error = Ok
            /\ ModelInstance(JsonLoads(full_content).value).error = Ok
    THEN ModelInstance(JsonLoads(full_content).value).value
    ELSE << >>

StreamChatCompletion ==
    /\ pc = "stream_created"
    /\ LET full_content == ResponseText(argument.json_mode, argument.n) IN
        returned' =
            CASE argument.json_mode = "raise_soe" -> Raises(StructuredOutputError)
              [] argument.json_mode = "raise_other" -> Raises(TransportError)
              [] OTHER -> Outcome("result",
                            LLMCompletionResult(full_content, ParseStreamed(full_content)))
    /\ pc' = "chat_returned"
    /\ UNCHANGED stream_vars
    /\ stream_frame

NextStructured == StructuredEnter \/ ANext \/ GetFinalResponse \/ StreamChatCompletion

SpecStructured == InitStructured /\ [][NextStructured]_vars

\* a value that passes the validation of the response model unchanged
IsValidated(v) == ModelInstance(v) = Returned(v)

\* C21: the parsed value of a final result is absent or a validated model
\* instance; a structured stream gives its final response only after the
\* backend's response was awaited, and asked before that it raises
\* StructuredOutputError
C21_Step ==
    /\ (pc = "stream_created" /\ GetFinalResponse)
            => returned' = Raises(StructuredOutputError)
    /\ returned'.kind = "result"
            => /\ \/ returned'.value.parsed = << >>
                  \/ IsValidated(returned'.value.parsed)
               /\ GetFinalResponse => pc = "stream_entered"

C21_FinalResultValidated == [][C21_Step]_vars

\* the schema stage got the beginning of an object and raised, the JSON
\* stage's answer was validated, and the final response was fetched
C21_Witness ==
    /\ pc = "stream_entered"
    /\ argument.json_schema = "truncated"
    /\ calls = << "native", "json_schema", "json_mode" >>
    /\ returned.kind = "result"
    /\ IsValidated(returned.value.parsed)

\* "".join(chunks)
RECURSIVE Concat(_)
Concat(chunks) == IF chunks = << >> THEN << >> ELSE Head(chunks) \o Concat(Tail(chunks))

\* the JSON object in the backend's answer to the last stage asked
BackendObject ==
    IF calls[Len(calls)] = "native" THEN ResponseText("plain", argument.n)
    ELSE EmbeddedObject(ResponseText(argument[calls[Len(calls)]], argument.n))

\* C22: after a successful structured completion the chunks joined in order
\* are the result's content, the content is the JSON dump of the parsed
\* model, and the parsed model is the response model holding the members of
\* the object the backend returned; a consumer that has read the stream to
\* its end has collected the same text
C22_ChunksAreTheDump ==
    pc = "stream_entered" =>
        /\ Concat(structured_stream._chunks) = structured_stream._result.content
        /\ structured_stream._result.content = Dump(structured_stream._result.parsed)
        /\ structured_stream._result.parsed =
                << "{", "d" >> \o Members(BackendObject) \o << "}" >>
        /\ structured_stream._iter > Len(structured_stream._chunks)
                => Concat(collected) = structured_stream._result.content

\* the native and the schema stage raised StructuredOutputError, the JSON
\* stage's answer carried an object followed by prose, and the consumer read
\* the three chunks of the dump
C22_Witness ==
    /\ pc = "stream_entered"
    /\ calls = << "native", "json_schema", "json_mode" >>
    /\ argument.native = "raise_soe"
    /\ argument.json_schema = "raise_soe"
    /\ argument.json_mode = "trailing"
    /\ Len(structured_stream._chunks) = 3
    /\ collected = structured_stream._chunks
    /\ returned = Outcome("result", structured_stream._result)

(***************************************************************************)
(* GET /v1/models                                                          *)
(***************************************************************************)
\* settings.LLMProvider
OPENAI == "openai"
MISTRAL == "mistral"
LLMProvider == {OPENAI, MISTRAL}

\* the body of a response of GET /v1/models: the ids of its data items
ModelsResponse(object, ids) == [object |-> object, data |-> ids]
NoModelsResponse == ModelsResponse(None, {})

\* endpoints.get_available_models: one item per value of AgentModel
get_available_models == ModelsResponse("list", AgentModel)

\* the API process with config.llm.provider held in argument
InitModels ==
    /\ IdleAgent
    /\ SessionInit
    /\ RegistryInit
    /\ NoStructuredStream
    /\ argument \in LLMProvider
    /\ returned = NoModelsResponse
    /\ pc = "serving"

\* GET /v1/models is served
ServesModels ==
    /\ pc = "serving"
    /\ returned' = get_available_models
    /\ http_status' = 200
    /\ UNCHANGED << agents_storage, argument, config_vars, client_vars, session_vars,
                    stream_vars, pc, iteration, searches_used, clarifications_used,
                    state, clarification_received, current_state_reasoning,
                    conversation, log, stream, tools, error >>

NextModels == NextApi \/ ServesModels

SpecModels == InitModels /\ [][NextModels]_vars

\* C24: the models listed are exactly sgr-agent when the provider is Mistral,
\* and sgr-agent with at least two more models when it is OpenAI
C24_ModelsFollowProvider ==
    returned.object = "list" =>
        /\ argument = MISTRAL => returned.data = {SGR_AGENT}
        /\ argument = OPENAI =>
                SGR_AGENT \in returned.data /\ Cardinality(returned.data) >= 3

(***************************************************************************)
(* GET /agents/{agent_id}/state                                            *)
(***************************************************************************)
\* the status of a response and the state its body reports
StateResponse(status, st) == [status |-> status, state |-> st]

\* endpoints.get_agent_state: line 46 reads agent.state, and an agent
\* without that attribute raises AttributeError, which is answered 500
get_agent_state(storage, agent_id) ==
    IF agent_id \notin DictKeys(storage) THEN StateResponse(404, None)
    ELSE IF ~HasOwnState(DictGet(storage, agent_id)) THEN StateResponse(500, None)
    ELSE StateResponse(200, DictGet(storage, agent_id).own_state)

\* GET /agents/{agent_id}/state is served
ServesAgentState(agent_id) ==
    /\ pc = "serving"
    /\ returned' = get_agent_state(agents_storage, agent_id)
    /\ http_status' = get_agent_state(agents_storage, agent_id).status
    /\ UNCHANGED << agents_storage, argument, config_vars, client_vars, session_vars,
                    stream_vars, pc, iteration, searches_used, clarifications_used,
                    state, clarification_received, current_state_reasoning,
                    conversation, log, stream, tools, error >>

NextAgentState ==
    \/ NextApi
    \/ \E agent_id \in CreatedIds \cup {UnknownAgentId} : ServesAgentState(agent_id)

\* the API process before any state was fetched
InitAgentState ==
    /\ IdleAgent
    /\ SessionInit
    /\ RegistryInit
    /\ NoStructuredStream
    /\ argument = None
    /\ returned = StateResponse(0, None)
    /\ pc = "serving"

SpecAgentState == InitAgentState /\ [][NextAgentState]_vars

\* C25: the state fetched for an agent whose run ended through a fatal error
\* is FAILED
C25_Step ==
    \A agent_id \in DictKeys(agents_storage) :
        (DictGet(agents_storage, agent_id).position = "failed"
            /\ ServesAgentState(agent_id))
        => returned' = StateResponse(200, FAILED)

C25_FailedRunReportedFailed == [][C25_Step]_vars

(***************************************************************************)
(* The decision validated against the permitted tool set, and its tool run *)
(***************************************************************************)
\* the function member of the object the backend answers with: the fields of
\* one tool type, with that type's tool_name_discriminator or without one
FunctionPayload(tag, fields_of) == [tag |-> tag, fields_of |-> fields_of]

FunctionPayloads ==
    UNION { { FunctionPayload(None, t), FunctionPayload(ToolName(t), t) } :
                t \in AllToolTypes }

\* the fields of a tool type that have no default
RequiredFields(t) ==
    { ToolFields(t)[i][1] : i \in { j \in DOMAIN ToolFields(t) :
                                        FieldDefault(ToolFields(t)[j][1]) = None } }

\* the discriminant model of tool type t validates the payload: its literal
\* tool_name_discriminator takes the tag or its default, and each of its
\* required fields is there
Accepts(t, payload) ==
    /\ payload.tag \in {None, ToolName(t)}
    /\ RequiredFields(t) \subseteq FieldNames(payload.fields_of)

\* validation against a model built over the whole toolkit
ValidateFunction_Toolkit(ts, payload) ==
    IF \E t \in toolkit : Accepts(t, payload)
    THEN Returned(CHOOSE t \in toolkit : Accepts(t, payload))
    ELSE Raised(ValidationError)

\* validation of the function member against the union that
\* _create_tool_types_union makes of the tool types ts: an instance of a
\* member that accepts the payload, or ValidationError
ValidateFunction(ts, payload) ==
    IF \E t \in ts : Accepts(t, payload)
    THEN Returned(CHOOSE t \in ts : Accepts(t, payload))
    ELSE Raised(ValidationError)

\* a context in the loop of execute, before _reasoning_phase
InitDecide ==
    /\ SessionInit
    /\ RegistryInit
    /\ NoStructuredStream
    /\ argument = FunctionPayload(None, AgentCompletionTool)
    /\ returned = None
    /\ max_iterations \in 1..MaxIterationsBound
    /\ max_clarifications \in 0..MaxClarificationsBound
    /\ max_searches \in 0..MaxSearchesBound
    /\ so_mode = "native"
    /\ toolkit \in {AgentToolkit({}), AgentToolkit({CustomMapTool})}
    /\ iteration \in 1..ToolInputBound
    /\ searches_used \in 0..ToolInputBound
    /\ clarifications_used \in 0..ToolInputBound
    /\ state = RESEARCHING
    /\ clarification_received = FALSE
    /\ current_state_reasoning = NoDecision
    /\ AgentInit
    /\ pc = "prepare_tools"

\* _reasoning_phase after _prepare_tools: the backend's object is validated
\* against the response model built over the permitted tools; the parsed
\* decision is returned to execute, or the completion fails
ReasoningValidates(payload) ==
    /\ pc = "tools_ready"
    /\ argument' = payload
    /\ LET function == ValidateFunction(tools, payload) IN
        IF function.error = Ok
        THEN /\ current_state_reasoning' =
                    [tool |-> function.value,
                     status |-> IF function.value = AgentCompletionTool
                                THEN COMPLETED ELSE None,
                     task_completed |-> FALSE]
             /\ log' = Append(log, ReasoningLogEntry)
             /\ pc' = "select"
             /\ UNCHANGED << state, error >>
        ELSE /\ ExceptHandler(StructuredOutputError)
             /\ UNCHANGED << current_state_reasoning, log >>
    /\ UNCHANGED << config_vars, session_vars, api_vars, stream_vars, returned,
                    client_vars, iteration, searches_used, clarifications_used,
                    clarification_received, conversation, stream, tools >>

NextDecide ==
    \/ ComputePermittedTools
    \/ \E payload \in FunctionPayloads : ReasoningValidates(payload)
    \/ SelectActionPhase
    \/ ActionPhaseRaises
    \/ ActionPhase

SpecDecide == InitDecide /\ [][NextDecide]_vars

\* C28: the tool that runs at an iteration is one of the tools permitted for
\* the iteration, and it is the tool the decision names when it names one
C28_Step ==
    ActionPhase =>
        /\ current_state_reasoning.tool \in tools
        /\ argument.tag \in {None, ToolName(current_state_reasoning.tool)}
        /\ tools = PrepareTools

C28_ExecutedToolPermitted == [][C28_Step]_vars

\* the search budget is used up, the backend's object has the fields of the
\* clarification tool, and that tool has run
C28_Witness ==
    /\ pc = "wait"
    /\ searches_used >= max_searches
    /\ WebSearchTool \notin tools
    /\ argument = FunctionPayload(None, ClarificationTool)
    /\ current_state_reasoning.tool = ClarificationTool
    /\ Last(conversation) = ToolResultTurn(iteration)

(***************************************************************************)
(* The history a reasoning call is made with                               *)
(***************************************************************************)
SystemTurn == [role |-> "system", kind |-> "prompt", id |-> 0]

\* the request made with the system prompt alone
_prepare_context_SystemOnly == << SystemTurn >>

\* BaseAgent._prepare_context: the messages of a reasoning call made now
_prepare_context == << SystemTurn >> \o conversation

\* the tool call of iteration i directly followed by its result
HasExchange(messages, i) ==
    \E k \in 1..(Len(messages) - 1) :
        messages[k] = ToolCallTurn(i) /\ messages[k + 1] = ToolResultTurn(i)

\* C26: the reasoning call that follows an iteration whose tool ran is made
\* with that iteration's tool call directly followed by its result, and at
\* no reasoning call is a recorded tool call without its result
C26_Step ==
    LoopIteration =>
        /\ iteration >= 1 => HasExchange(_prepare_context, iteration)
        /\ \A k \in DOMAIN _prepare_context :
                _prepare_context[k].kind = "tool_call"
                    => HasExchange(_prepare_context, _prepare_context[k].id)

C26_NextDecisionSeesOutcome == [][C26_Step]_vars

\* the reasoning call of the second iteration has been started after the
\* first iteration's tool ran
C26_Witness ==
    /\ pc = "stage"
    /\ iteration = 2
    /\ calls = << >>
    /\ _prepare_context =
            << SystemTurn, UserRequestTurn, ToolCallTurn(1), ToolResultTurn(1) >>

(***************************************************************************)
(* The order of the pushes to the streaming channel                        *)
(***************************************************************************)
\* the positions of the finish signal in the channel
FinishSignals == { k \in DOMAIN stream : stream[k] = "finish" }

\* C27: a tool's result text is pushed right after the announcement of its
\* invocation; the finish signal is pushed at most once and nothing is
\* pushed after it; a run that has ended, in whatever state, has pushed it
C27_PushOrder ==
    /\ \A k \in DOMAIN stream :
            stream[k] = "tool_result" => k > 1 /\ stream[k - 1] = "tool_call"
    /\ FinishSignals \subseteq {Len(stream)}
    /\ pc = "done" => FinishSignals = {Len(stream)}
    /\ pc # "done" => FinishSignals = {}

\* a run that failed in the tool of its second iteration: the tool was
\* announced, no result text followed, the finish signal is the last push
C27_Witness ==
    /\ pc = "done"
    /\ state = FAILED
    /\ error = ToolExecutionError
    /\ stream = << "text_chunk", "tool_call", "tool_result",
                   "text_chunk", "tool_call", "finish" >>

(***************************************************************************)
(* The search budget                                                       *)
(***************************************************************************)
\* the step is the run of a web search that completes
WebSearchCompletes == ActionPhase /\ current_state_reasoning.tool = WebSearchTool

\* C29: searches_used stays within max_searches; a web search runs only
\* while searches_used is below max_searches and raises it by one; nothing
\* else changes it
C29_Step ==
    /\ searches_used' <= max_searches'
    /\ WebSearchCompletes
            => searches_used < max_searches /\ searches_used' = searches_used + 1
    /\ (pc = "action" /\ current_state_reasoning.tool = WebSearchTool)
            => searches_used < max_searches
    /\ searches_used' # searches_used => WebSearchCompletes

C29_SearchBudgetKept == [][C29_Step]_vars

\* the one search of the budget has run and was counted
C29_Witness ==
    /\ pc = "loop"
    /\ max_searches = 1
    /\ searches_used = 1
    /\ current_state_reasoning.tool = WebSearchTool
    /\ Last(conversation) = ToolResultTurn(iteration)

(***************************************************************************)
(* The clarification budget                                                *)
(***************************************************************************)
\* C30: clarifications_used stays within max_clarifications
C30_ClarificationBudgetKept == clarifications_used <= max_clarifications

(***************************************************************************)
(* The URL-to-Source map of a session                                      *)
(***************************************************************************)
\* C31: no two entries of the session's sources carry the same number
C31_NumbersDistinct ==
    \A i, j \in DOMAIN sources :
        i # j => sources[i].value # sources[j].value

\* C32: a search leaves every URL collected before it in the map, with the
\* number it had
C32_Step ==
    \A results \in SearchResults :
        WebSearch(results) =>
            \A url \in DictKeys(sources) :
                /\ url \in DictKeys(sources')
                /\ DictGet(sources', url) = DictGet(sources, url)

C32_NumbersStable == [][C32_Step]_vars

(***************************************************************************)
(* A schema that does not compile                                          *)
(***************************************************************************)
\* C33: SchemaTooComplexError never reaches the caller of the completion;
\* when the schema does not compile at the JSON-Schema stage no request is
\* made and the next stage, JSON mode, is taken; the JSON-mode stage makes
\* its request, without a compiled schema when there is none to be had
C33_Step ==
    /\ error' # SchemaTooComplexError
    /\ StageJsonSchemaCompileFails
            => /\ pc' = "stage"
               /\ stages[stage_idx'] = "json_mode"
               /\ calls' = calls
    /\ (pc = "stage" /\ stages[stage_idx] = "json_mode" /\ pc' # pc)
            => /\ calls' = Append(calls, "json_mode")
               /\ pc' = "response"
               /\ compiled' = (CompileOutcome(tools) = Ok \/ compiled)

C33_TooComplexRecovered == [][C33_Step]_vars

\* the native stage failed, the schema did not compile at the JSON-Schema
\* stage, and the JSON-mode request was made without a compiled schema
C33_Witness ==
    /\ pc = "response"
    /\ CompileOutcome(tools) = SchemaTooComplexError
    /\ calls = << "native", "json_mode" >>
    /\ ~compiled

(***************************************************************************)
(* The clarification wait and the calls that release it                    *)
(***************************************************************************)
\* a clarification was appended to the conversation after the result of the
\* tool of iteration i
ClarifiedSince(i) ==
    \E k \in DOMAIN conversation :
        /\ conversation[k] = ToolResultTurn(i)
        /\ \E j \in (k + 1)..Len(conversation) : conversation[j] = ClarificationTurn

\* C34: the wait is entered with the event cleared, whatever calls were made
\* before; while the agent waits only a provide_clarification call sets the
\* event; the wait returns only after a call made since it was entered
C34_Step ==
    /\ (pc = "action" /\ pc' = "wait") => ~clarification_received'
    /\ (pc = "wait" /\ clarification_received' # clarification_received)
            => ProvideClarification
    /\ (pc = "wait" /\ pc' # "wait") => ClarifiedSince(iteration)

C34_WaitReleasedByLaterCall == [][C34_Step]_vars

\* a clarification was provided while the first reasoning call was awaited;
\* the agent then asked for one and waits, the event cleared
C34_Witness ==
    /\ pc = "wait"
    /\ ~clarification_received
    /\ conversation =
            << UserRequestTurn, ClarificationTurn, ToolCallTurn(1), ToolResultTurn(1) >>

(***************************************************************************)
(* A terminal decision can always be selected                              *)
(***************************************************************************)
\* C35: the permitted tool set computed on any Research Context holds the
\* completion tool
C35_CompletionToolPermitted ==
    pc = "tools_ready" => tools # {} /\ AgentCompletionTool \in tools

\* every budget is used up and the set was computed
C35_Witness ==
    /\ pc = "tools_ready"
    /\ iteration > max_iterations
    /\ clarifications_used > max_clarifications
    /\ searches_used > max_searches
    /\ CustomMapTool \in toolkit
    /\ AgentCompletionTool \in tools

(***************************************************************************)
(* The messages of a request and the copies the stages send                *)
(***************************************************************************)
\* the most messages of a request
MaxMessages == 2

\* a message dict; its content is a sequence of texts, empty for None
Message(role, content) == [role |-> role, content |-> content]

RequestMessages ==
    { Message("system", << "prompt" >>), Message("system", << >>),
      Message("user", << "task" >>) }

\* the dicts and lists of the caller and of the client: heap holds the dicts
\* (a dict's identity is its index), messages is request.messages,
\* conversation the agent's list and sent the list given to the backend, all
\* three as lists of identities
Memory(heap, messages, conv, sent) ==
    [heap |-> heap, messages |-> messages, conversation |-> conv, sent |-> sent]

\* BaseAgent._prepare_context makes a new list of the system prompt and the
\* dicts of the conversation; another caller's list may have no system
\* prompt
CallerMemory(dicts) ==
    Memory(dicts, [i \in DOMAIN dicts |-> i],
           IF dicts # << >> /\ dicts[1].role = "system"
           THEN [i \in 1..(Len(dicts) - 1) |-> i + 1]
           ELSE [i \in DOMAIN dicts |-> i],
           << >>)

\* the request built over the dicts of request.messages themselves
BuildRequestKwargs_Shared(mem) == [mem EXCEPT !.sent = mem.messages]

\* _build_request_kwargs: a new list of new dicts, one per message of the
\* request
BuildRequestKwargs(mem) ==
    [mem EXCEPT !.heap = mem.heap \o [i \in DOMAIN mem.messages |-> mem.heap[mem.messages[i]]],
                !.sent = [i \in DOMAIN mem.messages |-> Len(mem.heap) + i]]

\* _call_json_mode lines 301-307: the instruction is added to the first
\* message when that is a system message, and put in front otherwise
AddJsonInstruction(mem) ==
    IF mem.sent # << >> /\ mem.heap[mem.sent[1]].role = "system"
    THEN [mem EXCEPT !.heap[mem.sent[1]].content =
                IF @ # << >> THEN @ \o << "\n\n", "json_instruction" >>
                ELSE << "json_instruction" >>]
    ELSE [mem EXCEPT !.heap = Append(@, Message("system", << "json_instruction" >>)),
                     !.sent = << Len(mem.heap) + 1 >> \o @]

\* the request a stage sends
StageRequest(stage, mem) ==
    IF stage = "json_mode" THEN AddJsonInstruction(BuildRequestKwargs(mem))
    ELSE BuildRequestKwargs(mem)

\* a structured completion is about to run on a caller's request
InitMessages ==
    /\ max_iterations = 1
    /\ max_clarifications = 0
    /\ max_searches = 0
    /\ so_mode \in StageNames
    /\ toolkit = AgentToolkit({})
    /\ ResearchContextInit
    /\ AgentInit
    /\ SessionInit
    /\ RegistryInit
    /\ NoStructuredStream
    /\ \E dicts \in UNION { [1..n -> RequestMessages] : n \in 0..MaxMessages } :
        /\ argument = CallerMemory(dicts)
        /\ returned = CallerMemory(dicts)
    /\ pc = "completing"

\* one stage of _complete_structured builds and sends its request, and the
\* stage succeeds, raises StructuredOutputError or raises another exception
StageSends(outcome) ==
    /\ pc = "completing"
    /\ returned' = StageRequest(stages[stage_idx], returned)
    /\ calls' = Append(calls, stages[stage_idx])
    /\ IF outcome = Ok THEN pc' = "completed" /\ UNCHANGED stage_idx
       ELSE IF outcome = StructuredOutputError /\ stage_idx < Len(stages)
       THEN pc' = "completing" /\ stage_idx' = stage_idx + 1
       ELSE pc' = "failed" /\ UNCHANGED stage_idx
    /\ UNCHANGED << config_vars, session_vars, api_vars, stream_vars, argument,
                    compiled, response, result,
                    iteration, searches_used, clarifications_used, state,
                    clarification_received, current_state_reasoning,
                    conversation, log, stream, tools, error >>

NextMessages == \E outcome \in {Ok, StructuredOutputError, TransportError} : StageSends(outcome)

SpecMessages == InitMessages /\ [][NextMessages]_vars

\* C36: the list of the request, the list of the conversation and every
\* dict of theirs are as they were before the completion
C36_CallerMessagesUnchanged ==
    /\ returned.messages = argument.messages
    /\ returned.conversation = argument.conversation
    /\ \A id \in DOMAIN argument.heap : returned.heap[id] = argument.heap[id]

\* the completion succeeded at the JSON-mode stage after two stages failed;
\* the system message sent carries the instruction after the prompt
C36_Witness ==
    /\ pc = "completed"
    /\ calls = << "native", "json_schema", "json_mode" >>
    /\ Len(argument.messages) = 2
    /\ argument.heap[1] = Message("system", << "prompt" >>)
    /\ returned.heap[returned.sent[1]] =
            Message("system", << "prompt", "\n\n", "json_instruction" >>)

(***************************************************************************)
(* SGRToolCallingResearchAgent._prepare_tools                              *)
(***************************************************************************)
\* SGRToolCallingResearchAgent.__init__ line 50: the reasoning tool stays
ToolCallingToolkit(extra) ==
    system_agent_tools \cup research_agent_tools \cup {ReasoningTool} \cup extra

\* lines 72-86, CompletionTool read as the completion tool: at the iteration
\* limit tools is bound to a list, and `tools -= {...}` on a list raises
\* TypeError
ToolCallingPrepareTools ==
    IF iteration >= max_iterations
    THEN IF clarifications_used >= max_clarifications \/ searches_used >= max_searches
         THEN Raised(TypeError)
         ELSE Returned({CreateReportTool, AgentCompletionTool})
    ELSE Returned(ToolsAfterSearchLimit(
                    ToolsAfterClarificationLimit(toolkit, clarifications_used,
                                                 max_clarifications),
                    searches_used, max_searches))

InitToolCalling ==
    /\ SessionInit
    /\ RegistryInit
    /\ NoStructuredStream
    /\ NoCall
    /\ max_iterations \in 0..MaxIterationsBound
    /\ max_clarifications \in 0..MaxClarificationsBound
    /\ max_searches \in 0..MaxSearchesBound
    /\ so_mode = "native"
    /\ toolkit \in {ToolCallingToolkit({}), ToolCallingToolkit({CustomMapTool})}
    /\ iteration \in 0..ToolInputBound
    /\ searches_used \in 0..ToolInputBound
    /\ clarifications_used \in 0..ToolInputBound
    /\ state = RESEARCHING
    /\ clarification_received = FALSE
    /\ current_state_reasoning = NoDecision
    /\ AgentInit
    /\ pc = "prepare_tools"

\* one call of SGRToolCallingResearchAgent._prepare_tools
ToolCallingPreparesTools ==
    /\ pc = "prepare_tools"
    /\ returned' = ToolCallingPrepareTools
    /\ pc' = "tools_returned"
    /\ UNCHANGED << config_vars, session_vars, api_vars, stream_vars, argument,
                    client_vars, iteration, searches_used, clarifications_used, state,
                    clarification_received, current_state_reasoning,
                    conversation, log, stream, tools, error >>

SpecToolCalling == InitToolCalling /\ [][ToolCallingPreparesTools]_vars

\* C37: the computation returns for every budget state, and at the
\* iteration limit it returns the report tool and the completion tool
C37_ToolCallingToolsComputed ==
    pc = "tools_returned" =>
        /\ returned.error = Ok
        /\ iteration >= max_iterations
                => returned.value = {CreateReportTool, AgentCompletionTool}

(***************************************************************************)
(* The early SGRAgent loop (src/core/agent.py, src/core/tools.py)          *)
(*                                                                         *)
(* iteration is the loop index i, max_iterations is                        *)
(* config.execution.max_steps, argument holds the attributes the context   *)
(* gets after construction, log the tool names the loop logs.  What the    *)
(* other tools store in the context is left out.                           *)
(***************************************************************************)
MaxSteps == 3

AttributeError == "AttributeError"
ReportCompletionTool == "ReportCompletionTool"

\* NextStepTools.function
NextStepToolTypes ==
    {ClarificationTool, GeneratePlanTool, WebSearchTool, AdaptPlanTool,
     CreateReportTool, ReportCompletionTool}

\* ResearchContext.__init__ sets no clarification_used attribute; it exists
\* once provide_clarification or ClarificationTool.__call__ has assigned it
ContextAttributes(assigned, used) ==
    [has_clarification_used |-> assigned, clarification_used |-> used]

\* NextStepTools as far as the loop reads it
NextSteps == [function : NextStepToolTypes, task_completed : BOOLEAN]

InitSGRAgent ==
    /\ SessionInit
    /\ RegistryInit
    /\ NoStructuredStream
    /\ argument = ContextAttributes(FALSE, FALSE)
    /\ returned = None
    /\ max_iterations \in 1..MaxSteps
    /\ max_clarifications = 0
    /\ max_searches = 0
    /\ so_mode = "native"
    /\ toolkit = NextStepToolTypes
    /\ iteration = 0
    /\ searches_used = 0
    /\ clarifications_used = 0
    /\ state = INITED
    /\ clarification_received = FALSE
    /\ current_state_reasoning = NoDecision
    /\ AgentInit
    /\ pc = "inited"

\* SGRAgent.provide_clarification
SGRAgentProvideClarification ==
    /\ argument' = ContextAttributes(TRUE, TRUE)
    /\ clarification_received' = TRUE
    /\ state' = RESEARCHING
    /\ UNCHANGED << config_vars, session_vars, api_vars, stream_vars, returned,
                    client_vars, iteration, searches_used, clarifications_used,
                    current_state_reasoning, conversation, log, stream, pc,
                    tools, error >>

\* _handle_research_task up to the loop
HandleResearchTask ==
    /\ pc = "inited"
    /\ conversation' = << "system", "user" >>
    /\ iteration' = 0
    /\ pc' = "step"
    /\ UNCHANGED << config_vars, session_vars, api_vars, stream_vars, call_vars,
                    client_vars, searches_used, clarifications_used, state,
                    clarification_received, current_state_reasoning, log,
                    stream, tools, error >>

\* the head of one step: the loop test and _prepare_context, entered from
\* the previous step or from the wait the event has released
StepBegins ==
    /\ \/ pc = "step"
       \/ pc = "wait" /\ clarification_received
    /\ LET i == IF pc = "wait" THEN iteration + 1 ELSE iteration
       IN  /\ iteration' = i
           /\ IF i >= max_iterations
              THEN /\ pc' = "returned"
                   /\ UNCHANGED << conversation, error >>
              ELSE IF ~argument.has_clarification_used
              THEN /\ pc' = "raised"
                   /\ error' = AttributeError
                   /\ UNCHANGED conversation
              ELSE /\ pc' = "parse"
                   /\ conversation' = Append(conversation, "context")
                   /\ UNCHANGED error
    /\ UNCHANGED << config_vars, session_vars, api_vars, stream_vars, call_vars,
                    client_vars, searches_used, clarifications_used, state,
                    clarification_received, current_state_reasoning, log,
                    stream, tools >>

\* lines 85-113: the request fails or nothing was parsed; the loop breaks
ParseFails ==
    /\ pc = "parse"
    /\ pc' = "returned"
    /\ UNCHANGED << config_vars, session_vars, api_vars, stream_vars, call_vars,
                    client_vars, iteration, searches_used, clarifications_used,
                    state, clarification_received, current_state_reasoning,
                    conversation, log, stream, tools, error >>

\* ClarificationTool.__call__ line 47, and the other tools
ContextAfterCall(function) ==
    IF function = ClarificationTool THEN ContextAttributes(TRUE, TRUE) ELSE argument

\* lines 88-166: the parsed step is logged, its tool is called, and the rest
\* of the loop body dispatches on the tool
StepDispatches(parsed) ==
    /\ pc = "parse"
    /\ log' = Append(log, parsed.function)
    /\ argument' = ContextAfterCall(parsed.function)
    /\ IF parsed.task_completed \/ parsed.function = ReportCompletionTool
       THEN /\ pc' = "returned"
            /\ UNCHANGED << conversation, iteration, state >>
       ELSE IF parsed.function = ClarificationTool
       THEN IF argument'.clarification_used
            THEN /\ conversation' = Append(conversation, "ANTI-CYCLING")
                 /\ iteration' = iteration + 1
                 /\ pc' = "step"
                 /\ UNCHANGED state
            ELSE /\ state' = WAITING_FOR_CLARIFICATION
                 /\ pc' = "wait"
                 /\ UNCHANGED << conversation, iteration >>
       ELSE /\ conversation' = conversation \o << "assistant", "tool" >>
            /\ UNCHANGED state
            /\ IF parsed.function = CreateReportTool
               THEN pc' = "returned" /\ UNCHANGED iteration
               ELSE pc' = "step" /\ iteration' = iteration + 1
    /\ UNCHANGED << config_vars, session_vars, api_vars, stream_vars, returned,
                    client_vars, searches_used, clarifications_used,
                    clarification_received, current_state_reasoning,
                    stream, tools, error >>

NextSGRAgent ==
    \/ SGRAgentProvideClarification
    \/ HandleResearchTask
    \/ StepBegins
    \/ ParseFails
    \/ \E parsed \in NextSteps : StepDispatches(parsed)

SpecSGRAgent == InitSGRAgent /\ [][NextSGRAgent]_vars

\* whether the loop has logged the clarification tool before
ClarificationSelectedBefore == \E k \in 1..Len(log) : log[k] = ClarificationTool

C38_Step ==
    \A parsed \in NextSteps :
        (/\ StepDispatches(parsed)
         /\ parsed.function = ClarificationTool
         /\ ~parsed.task_completed
         /\ ~ClarificationSelectedBefore)
            => state' = WAITING_FOR_CLARIFICATION /\ pc' = "wait"

\* C38: the first Clarification the model selects in a run makes the agent
\* wait for provide_clarification; it is not skipped as cycling
C38_FirstClarificationWaits == [][C38_Step]_vars

(***************************************************************************)
(* The classic command-line agent (sgr-classic/sgr-deep-research.py)       *)
(*                                                                         *)
(* argument holds CONTEXT, pc the position of main (awaiting_clarification *)
(* is True exactly at "input_clarification"), iteration the loop index of  *)
(* execute_research_task, max_iterations CONFIG['max_execution_steps'].    *)
(* clarifications_used counts the Clarification commands dispatched since  *)
(* the last initial task was read; the program keeps no such count.        *)
(***************************************************************************)
\* the dispatches of Clarification the model follows in one session
MaxDispatches == 2

\* CONTEXT, with the searches and the sources counted
Context(searches_count, sources_count, used) ==
    [searches |-> searches_count, sources |-> sources_count,
     clarification_used |-> used]

\* lines 285-291 and 755-762
FreshContext == Context(0, 0, FALSE)

\* NextStep as far as execute_research_task reads it, and the number of new
\* urls a search brings
Jobs == [function : NextStepToolTypes, task_completed : BOOLEAN, new_urls : 0..1]

InitClassic ==
    /\ SessionInit
    /\ RegistryInit
    /\ NoStructuredStream
    /\ argument = FreshContext
    /\ returned = None
    /\ max_iterations \in 1..MaxSteps
    /\ max_clarifications = 0
    /\ max_searches = 0
    /\ so_mode = "native"
    /\ toolkit = NextStepToolTypes
    /\ iteration = 0
    /\ searches_used = 0
    /\ clarifications_used = 0
    /\ state = INITED
    /\ clarification_received = FALSE
    /\ current_state_reasoning = NoDecision
    /\ AgentInit
    /\ pc = "input_task"

classic_frame ==
    UNCHANGED << config_vars, session_vars, api_vars, stream_vars, client_vars,
                 searches_used, state, clarification_received,
                 current_state_reasoning, conversation, log, stream, tools,
                 error >>

\* main lines 742-765 with awaiting_clarification False: a task is read and
\* the context is reset
MainReadsTask ==
    /\ pc = "input_task"
    /\ argument' = FreshContext
    /\ clarifications_used' = 0
    /\ iteration' = 0
    /\ pc' = "step"
    /\ UNCHANGED returned
    /\ classic_frame

\* main lines 730-765 with awaiting_clarification True: line 732 clears the
\* flag before line 754 tests it, so the context is reset here as well
MainReadsClarification ==
    /\ pc = "input_clarification"
    /\ argument' = FreshContext
    /\ iteration' = 0
    /\ pc' = "step"
    /\ UNCHANGED << returned, clarifications_used >>
    /\ classic_frame

\* lines 734-735 and 745-747: quit
MainQuits ==
    /\ pc \in {"input_task", "input_clarification"}
    /\ pc' = "exit"
    /\ UNCHANGED << call_vars, iteration, clarifications_used >>
    /\ classic_frame

\* dispatch: what the command leaves in CONTEXT, a search being one that
\* tavily answers
Dispatch(job) ==
    IF job.function = ClarificationTool
    THEN Context(argument.searches, argument.sources, TRUE)
    ELSE IF job.function = WebSearchTool
    THEN Context(argument.searches + 1, argument.sources + job.new_urls,
                 argument.clarification_used)
    ELSE argument

\* execute_research_task returns value to main, lines 765-775
Returns(value) ==
    /\ returned' = value
    /\ pc' = IF value = "CLARIFICATION_NEEDED" THEN "input_clarification"
                                               ELSE "input_task"
    /\ UNCHANGED iteration

\* the loop goes on to step i + 1, or ends when there is none
Continues ==
    IF iteration + 1 >= max_iterations
    THEN Returns("COMPLETED")
    ELSE /\ iteration' = iteration + 1
         /\ UNCHANGED << returned, pc >>

\* lines 567-611: the request fails or nothing was parsed
JobFails ==
    /\ pc = "step"
    /\ Returns("COMPLETED")
    /\ UNCHANGED << argument, clarifications_used >>
    /\ classic_frame

\* lines 613-704: one parsed step of execute_research_task
JobRuns(job) ==
    /\ pc = "step"
    /\ job.function = ClarificationTool => clarifications_used < MaxDispatches
    /\ IF job.task_completed \/ job.function = ReportCompletionTool
       THEN /\ argument' = Dispatch(job)
            /\ clarifications_used' =
                   IF job.function = ClarificationTool
                   THEN clarifications_used + 1 ELSE clarifications_used
            /\ Returns("COMPLETED")
       ELSE IF job.function = ClarificationTool /\ argument.clarification_used
       THEN /\ UNCHANGED << argument, clarifications_used >>
            /\ Continues
       ELSE IF job.function = ClarificationTool
       THEN /\ argument' = Dispatch(job)
            /\ clarifications_used' = clarifications_used + 1
            /\ Returns("CLARIFICATION_NEEDED")
       ELSE /\ argument' = Dispatch(job)
            /\ UNCHANGED clarifications_used
            /\ IF job.function = CreateReportTool
               THEN Returns("COMPLETED")
               ELSE Continues
    /\ classic_frame

NextClassic ==
    \/ MainReadsTask
    \/ MainReadsClarification
    \/ MainQuits
    \/ JobFails
    \/ \E job \in Jobs : JobRuns(job)

SpecClassic == InitClassic /\ [][NextClassic]_vars

C39_Step ==
    /\ clarifications_used' <= 1
    /\ MainReadsClarification =>
           /\ argument'.sources = argument.sources
           /\ argument'.searches = argument.searches

\* C39: no more than one clarification request is dispatched between two
\* initial tasks, and a clarification answer leaves the collected sources
\* and searches in CONTEXT
C39_OneClarificationPerSession == [][C39_Step]_vars

====
